---- MODULE Spec2Model ----
(***************************************************************************)
(* The intcode interpreter of src/intcode/src/lib.rs (struct Program) as a *)
(* state machine.  One action per arm of the `match` in Program::run, one  *)
(* per public operation, one per arm of run_capturing_output's loop.       *)
(*                                                                         *)
(* Integers: TLC's integers are 32 bits wide, so the 64-bit machine word   *)
(* is scaled: UsizeModulus stands for 2^64.  `x as usize` is x modulo      *)
(* UsizeModulus and `u as i64` maps the upper half back to the negatives,  *)
(* exactly as the two's-complement casts of the source do.  Every cell of  *)
(* the programs explored is far below UsizeModulus \div 2.                 *)
(***************************************************************************)
EXTENDS Integers, Sequences, FiniteSets, TLC

VARIABLES
  opcodes,        \* Program.opcodes: Vec<i64>, cell a is opcodes[a + 1]
  pointer,        \* Program.pointer: usize
  inputs,         \* Program.inputs: VecDeque<i64>
  relative_base,  \* Program.relative_base: usize
  build,          \* "debug" (overflow checks on) or "release" (wrapping)
  pc,             \* "idle" | "run" (inside run's loop) | "capture" | "panic"
  caller,         \* who called run(): "user" | "capture" | "none"
  output,         \* run_capturing_output's local `output` vector
  captured,       \* the vector run_capturing_output last returned
  results,        \* history: the ProgramState of every run() call that returned
  emitted,        \* history: the value of every Output instruction executed
  pushed,         \* history: every value given to push_input, in order
  consumed,       \* history: number of values popped by Input instructions
  calls,          \* history: number of run() calls started
  capStart,       \* history: Len(results) when run_capturing_output was called
  lastOp,         \* history: the arm of run's loop taken last
  lastAt,         \* history: the pointer when that arm was entered
  panicMsg,       \* the panic that ended the process, "none" while alive
  amplifiers,     \* the other Program instances of the process, in queue order
  last_output,    \* feedback_amplifier_power's local `last_output`
  intcodes,       \* the sequence given to Program::new
  settings,       \* the part of `settings` the construction loop has yet to visit
  ops,            \* history: the calls made on this Program while another one exists
  locals          \* the local variables of the function that drives the VM

vars == <<opcodes, pointer, inputs, relative_base, build, pc, caller, output,
          captured, results, emitted, pushed, consumed, calls, capStart,
          lastOp, lastAt, panicMsg, amplifiers, last_output,
          intcodes, settings, ops, locals>>

vmVars == <<opcodes, pointer, inputs, relative_base>>

----------------------------------------------------------------------------
(* Bounds of the model *)

\* stands for 2^64, the modulus of usize
UsizeModulus == 1048576
\* longest memory the model lets a write grow to
MaxMem == 102
\* total number of push_input calls explored
MaxPush == 2
\* total number of calls of run() and run_capturing_output() explored
MaxCalls == 4
\* the most values one run_capturing_output() collects before its last run()
MaxCapture == 16

\* the values handed to push_input
InputVals == {7, 8, 9}

\* the programs handed to Program::new
Programs ==
  { <<3, 9, 8, 9, 10, 9, 4, 9, 99, -1, 8>>,
    <<3, 12, 7, 12, 13, 12, 1006, 12, 0, 4, 12, 99, 0, 8>>,
    <<3, 0, 3, 1, 4, 0, 4, 1, 99>>,
    <<104, 5, 104, 6, 99>>,
    <<104, 5, 1105, 1, 0>>,
    <<1105, 1, 0>>,
    <<1105, 0, 0, 1106, 1, 0, 1105, 1, 9>>,
    <<1105, 1, -1>>,
    <<1002, 4, 3, 4, 33>>,
    <<1101, 1, 1, 0>>,
    <<1101, 1, 1, 12, 4, 12>>,
    <<11101, 1, 1, 0, 99>>,
    <<11107, 1, 2, 0, 11108, 2, 2, 0, 11102, 3, 3, 0, 99>>,
    <<103, 0, 4, 1, 99>>,
    <<4, 0>>,
    <<104, 1, 0>>,
    <<104, 1, -99>>,
    <<4, -1, 99>>,
    <<5, -1, 0, 6, -1, 8, 99, 0, 6>>,
    <<1, -1, 0, 0, 4, 0, 99>>,
    <<1101, 1, 1, -1, 99>>,
    <<1101, 1, 1, -2, 99>>,
    <<3, -2, 99>>,
    <<109, 19, 204, -15, 99>>,
    <<109, -3, 204, 3, 204, 1, 99>>,
    <<109, -3, 21101, 1, 1, 0, 99>>,
    <<109, 7, 203, 0, 4, 7, 99>>,
    <<0>>,
    <<-1>>,
    <<-101, 0, 0, 0>>,
    <<301, 0, 0, 0>>,
    <<3>>,
    <<3, 0, 99>>,
    <<3, 9, 7, 9, 10, 9, 4, 9, 99, -1, 8>>,
    <<9, 50, 204, 60, 1005, 70, 0, 1006, 80, 11, 0, 99>>,
    <<6, 80, 90>>,
    <<1, 50, 60, 0, 4, 0, 99>>,
    <<8, 50, 60, 0, 4, 0, 99>>,
    <<4, 3, 99>>,
    <<109, 2, 21101, 3, 4, 7, 204, 7, 99>>,
    <<5, 7, 8, 6, 9, 10, 99, 0, 6, 0, 6>>,
    <<5, 1, 4, 99, 3>>,
    <<100001, 0, 0, 0, 99>>,
    <<109, 1, 204, -1, 1001, 100, 1, 100, 1008, 100, 16, 101, 1006, 101, 0, 99>> }

----------------------------------------------------------------------------
(* Casts and integer arithmetic of the target *)

\* `x as usize`
ToUsize(x) == x % UsizeModulus

\* `u as i64`
ToI64(u) == IF u >= UsizeModulus \div 2 THEN u - UsizeModulus ELSE u

\* i64 `/` : rounds toward zero (b > 0)
RustDiv(a, b) == IF a >= 0 THEN a \div b ELSE -((-a) \div b)

\* i64 `%` : the remainder has the sign of the dividend (b > 0)
RustRem(a, b) == a - b * RustDiv(a, b)

\* i64 `+` and `*`: a result out of range panics in a debug build and wraps
\* in a release build
Arith(x) ==
  IF -(UsizeModulus \div 2) <= x /\ x < UsizeModulus \div 2
    THEN [panic |-> "none", value |-> x]
    ELSE IF build = "debug"
      THEN [panic |-> "arithmetic overflow", value |-> 0]
      ELSE [panic |-> "none", value |-> ToI64(ToUsize(x))]

----------------------------------------------------------------------------
(* Decoder *)

from_digit(digit) ==
  CASE digit = 0 -> "Position"
    [] digit = 1 -> "Immediate"
    [] digit = 2 -> "Relative"
    [] OTHER -> "Invalid"

from_opcode(digit) ==
  CASE digit = 1 -> "Add"
    [] digit = 2 -> "Mul"
    [] digit = 3 -> "Input"
    [] digit = 4 -> "Output"
    [] digit = 5 -> "JumpIfTrue"
    [] digit = 6 -> "JumpIfFalse"
    [] digit = 7 -> "LessThan"
    [] digit = 8 -> "Equal"
    [] digit = 9 -> "SetRelativeBase"
    [] digit = 99 -> "Exit"
    [] OTHER -> "Unknown"

\* opcode_of with the mathematical modulo (never negative) for the remainder
opcode_of_modulo(intcode) == intcode % 100

\* the opcode part of a cell, as from_intcode computes it
opcode_of(intcode) == RustRem(intcode, 100)

size(instruction) ==
  CASE instruction \in {"Add", "Mul", "LessThan", "Equal"} -> 4
    [] instruction \in {"Input", "Output", "SetRelativeBase"} -> 2
    [] instruction \in {"JumpIfTrue", "JumpIfFalse"} -> 3
    [] OTHER -> 1

jumps(instruction) == instruction \in {"JumpIfTrue", "JumpIfFalse"}

\* The struct literal evaluates its fields in order: the opcode is decoded
\* first, so an unknown opcode panics before any mode digit is looked at.
from_intcode(intcode) ==
  LET ins == from_opcode(opcode_of(intcode))
      m1 == from_digit(RustRem(RustDiv(intcode, 100), 10))
      m2 == from_digit(RustRem(RustDiv(intcode, 1000), 10))
      m3 == from_digit(RustDiv(intcode, 10000))
  IN [instruction |-> ins, mode_one |-> m1, mode_two |-> m2, mode_three |-> m3,
      panic |-> IF ins = "Unknown" THEN "Unknown opcode"
                ELSE IF "Invalid" \in {m1, m2, m3} THEN "Invalid param mode"
                ELSE "none"]

\* jump_size without the test of jumps(): the pass adds the size of a jump
\* instruction to the pointer the jump has just set
jump_size_always(instruction) == size(instruction)

jump_size(instruction) == IF jumps(instruction) THEN 0 ELSE size(instruction)

----------------------------------------------------------------------------
(* Memory *)

\* Program::read.  It is only called while an instruction is being executed,
\* when the memory holds at least the cell of that instruction.
read(mem, address) ==
  IF address > Len(mem) - 1 THEN 0 ELSE mem[address + 1]

\* Vec::resize(new_len, 0)
resize(mem, new_len) ==
  [i \in 1..new_len |-> IF i <= Len(mem) THEN mem[i] ELSE 0]

\* Program::set that pushes the value onto the end of the vector when the
\* address is beyond it, instead of resizing up to the address
set_appending(mem, address, value) ==
  IF address > Len(mem) - 1
    THEN [panic |-> "none", mem |-> Append(mem, value)]
    ELSE [panic |-> "none", mem |-> [mem EXCEPT ![address + 1] = value]]

\* Program::set: the memory after the call, and the panic that ends it.
\* address + 1 overflows for usize::MAX: a debug build panics there, a release
\* build wraps to resize(0, 0) and then fails the index.  A vector of more
\* than isize::MAX bytes (8 per cell) is refused with "capacity overflow".
set(mem, address, value) ==
  IF address > Len(mem) - 1
    THEN IF address = UsizeModulus - 1
           THEN IF build = "debug"
                  THEN [panic |-> "arithmetic overflow", mem |-> mem]
                  ELSE [panic |-> "index out of bounds", mem |-> <<>>]
           ELSE IF address + 1 >= UsizeModulus \div 16
             THEN [panic |-> "capacity overflow", mem |-> mem]
             ELSE [panic |-> "none",
                   mem |-> [resize(mem, address + 1) EXCEPT ![address + 1] = value]]
    ELSE [panic |-> "none", mem |-> [mem EXCEPT ![address + 1] = value]]

----------------------------------------------------------------------------
(* Addressing *)

\* ParamMode::position whose Relative arm adds the base the program started
\* with (0) instead of the current one
position_initial_base(mode, pos, mem, rb) ==
  CASE mode = "Position" -> ToUsize(read(mem, pos))
    [] mode = "Immediate" -> pos
    [] mode = "Relative" -> ToUsize(read(mem, pos))

\* ParamMode::position.  The i64 sum of the Relative arm stays far inside the
\* word for every cell and relative base the model reaches (run_SetRelativeBase
\* keeps the base in range), so the sum never overflows here.
position(mode, pos, mem, rb) ==
  CASE mode = "Position" -> ToUsize(read(mem, pos))
    [] mode = "Immediate" -> pos
    [] mode = "Relative" -> ToUsize(ToI64(rb) + read(mem, pos))

\* ParamMode::value_at
value_at(mode, pos, mem, rb) == read(mem, position(mode, pos, mem, rb))

\* Program::next
next(mem, ptr) ==
  IF ptr < Len(mem)
    THEN [some |-> TRUE, ins |-> from_intcode(read(mem, ptr))]
    ELSE [some |-> FALSE, ins |-> from_intcode(99)]

take_one_param(ins) == position(ins.mode_one, pointer + 1, opcodes, relative_base)

take_two_params(ins) ==
  [one |-> value_at(ins.mode_one, pointer + 1, opcodes, relative_base),
   two |-> value_at(ins.mode_two, pointer + 2, opcodes, relative_base)]

take_three_params(ins) ==
  [one |-> value_at(ins.mode_one, pointer + 1, opcodes, relative_base),
   two |-> value_at(ins.mode_two, pointer + 2, opcodes, relative_base),
   address |-> position(ins.mode_three, pointer + 3, opcodes, relative_base)]

----------------------------------------------------------------------------
(* ProgramState *)

HaltNone == [tag |-> "Halt", some |-> FALSE, value |-> 0]

HaltSome(value) == [tag |-> "Halt", some |-> TRUE, value |-> value]

Output(value) == [tag |-> "Output", some |-> TRUE, value |-> value]

\* output_state that forgets the value of a terminal output
output_state_drops(value, instruction) ==
  IF instruction = "Exit" THEN HaltNone ELSE Output(value)

\* output_state with the test on the look-ahead inverted
output_state_inverted(value, instruction) ==
  IF instruction = "Exit" THEN Output(value) ELSE HaltSome(value)

\* output_state without the look-ahead: every output is resumable
output_state_resumable(value, instruction) == Output(value)

\* what run() returns after an Output instruction, from the instruction the
\* look-ahead found
output_state(value, instruction) ==
  IF instruction = "Exit" THEN HaltSome(value) ELSE Output(value)

----------------------------------------------------------------------------
(* Program::new *)

\* the memory test_change_relative_base builds with program.set(1985, 1337)
PresetMemory(program, address, value) ==
  [i \in 1..(address + 1) |->
     IF i <= Len(program) THEN program[i]
     ELSE IF i = address + 1 THEN value ELSE 0]

\* test_change_relative_base assigns relative_base = 2000 before it runs
TestSetups ==
  { [opcodes |-> <<109, 19, 99>>, relative_base |-> 2000],
    [opcodes |-> PresetMemory(<<109, 19, 204, -34, 99>>, 1985, 1337),
     relative_base |-> 2000] }

Setups ==
  {[opcodes |-> program, relative_base |-> 0] : program \in Programs}
    \cup TestSetups

\* Program::new that leaves the pointer on the second cell
Fresh_pointer_one(setup) ==
  /\ opcodes = setup.opcodes
  /\ pointer = 1
  /\ inputs = <<>>
  /\ relative_base = setup.relative_base
  /\ build \in {"debug", "release"}
  /\ pc = "idle"
  /\ caller = "none"
  /\ output = <<>>
  /\ captured = <<>>
  /\ results = <<>>
  /\ emitted = <<>>
  /\ pushed = <<>>
  /\ consumed = 0
  /\ calls = 0
  /\ capStart = 0
  /\ lastOp = "new"
  /\ lastAt = 0
  /\ panicMsg = "none"
  /\ amplifiers = <<>>
  /\ last_output = 0
  /\ intcodes = <<>>
  /\ settings = <<>>
  /\ ops = <<>>
  /\ locals = <<>>

\* the VM as Program::new leaves it, in the harness that drives it
Fresh(setup) ==
  /\ opcodes = setup.opcodes
  /\ pointer = 0
  /\ inputs = <<>>
  /\ relative_base = setup.relative_base
  /\ build \in {"debug", "release"}
  /\ pc = "idle"
  /\ caller = "none"
  /\ output = <<>>
  /\ captured = <<>>
  /\ results = <<>>
  /\ emitted = <<>>
  /\ pushed = <<>>
  /\ consumed = 0
  /\ calls = 0
  /\ capStart = 0
  /\ lastOp = "new"
  /\ lastAt = 0
  /\ panicMsg = "none"
  /\ amplifiers = <<>>
  /\ last_output = 0
  /\ intcodes = <<>>
  /\ settings = <<>>
  /\ ops = <<>>
  /\ locals = <<>>

Init == \E setup \in Setups : Fresh(setup)

----------------------------------------------------------------------------
(* The ways one pass of run's loop ends *)

\* the instruction `while let Some(instruction) = self.next()` binds
Fetched == next(opcodes, pointer)

\* the loop is at the arm of `instruction`
Arm(instruction) ==
  /\ pc = "run"
  /\ Fetched.some
  /\ Fetched.ins.panic = "none"
  /\ Fetched.ins.instruction = instruction

\* the arm falls through to the next pass of the loop
Continue(op, mem, ptr, rb, inq) ==
  /\ opcodes' = mem
  /\ pointer' = ptr
  /\ relative_base' = rb
  /\ inputs' = inq
  /\ pc' = "run"
  /\ lastOp' = op
  /\ lastAt' = pointer
  /\ UNCHANGED <<build, amplifiers, last_output, intcodes, settings, ops,
                 caller, output, captured, results, pushed, calls, capStart,
                 panicMsg, locals>>

\* Return that does not keep the relative base from one run() to the next:
\* the base is back at 0 when run() returns
Return_resets_base(op, ptr, res) ==
  /\ pointer' = ptr
  /\ results' = Append(results, res)
  /\ pc' = IF caller = "capture" THEN "capture" ELSE "idle"
  /\ lastOp' = op
  /\ lastAt' = pointer
  /\ relative_base' = 0
  /\ UNCHANGED <<opcodes, inputs, build, amplifiers, last_output, intcodes,
                 settings, ops, caller, output, captured, pushed, calls,
                 capStart, panicMsg, locals>>

\* run() returns `res` to its caller
Return(op, ptr, res) ==
  /\ pointer' = ptr
  /\ results' = Append(results, res)
  /\ pc' = IF caller = "capture" THEN "capture" ELSE "idle"
  /\ lastOp' = op
  /\ lastAt' = pointer
  /\ UNCHANGED <<opcodes, inputs, relative_base, build, amplifiers,
                 last_output, intcodes, settings, ops, caller, output,
                 captured, pushed, calls, capStart, panicMsg, locals>>

\* the process panics
Abort(op, msg, mem, ptr, inq) ==
  /\ pc' = "panic"
  /\ panicMsg' = msg
  /\ opcodes' = mem
  /\ pointer' = ptr
  /\ inputs' = inq
  /\ lastOp' = op
  /\ lastAt' = pointer
  /\ UNCHANGED <<relative_base, build, amplifiers, last_output, intcodes,
                 settings, ops, caller, output, captured, results, pushed,
                 calls, capStart, locals>>

\* Store that writes into a copy of the memory: the write is lost and the
\* next fetch sees the cell as it was
Store_discards(op, address, value, inq) ==
  LET s == set(opcodes, address, value)
  IN IF s.panic # "none"
       THEN Abort(op, s.panic, s.mem, pointer, inq)
       ELSE /\ Len(s.mem) <= MaxMem
            /\ Continue(op, opcodes, pointer + jump_size(op), relative_base, inq)

\* self.set(address, value), then the jump_forward that ends the pass
Store(op, address, value, inq) ==
  LET s == set(opcodes, address, value)
  IN IF s.panic # "none"
       THEN Abort(op, s.panic, s.mem, pointer, inq)
       ELSE /\ Len(s.mem) <= MaxMem
            /\ Continue(op, s.mem, pointer + jump_size(op), relative_base, inq)

----------------------------------------------------------------------------
(* Public operations *)

\* push_input with push_front for push_back
push_input_front(input) ==
  /\ pc = "idle"
  /\ Len(pushed) < MaxPush
  /\ inputs' = <<input>> \o inputs
  /\ pushed' = Append(pushed, input)
  /\ UNCHANGED <<opcodes, pointer, relative_base, build, amplifiers,
                 last_output, intcodes, settings, ops, pc, caller, output,
                 captured, results, emitted, consumed, calls, capStart,
                 lastOp, lastAt, panicMsg, locals>>

\* push_input that replaces the queue by the one value
push_input_replaces(input) ==
  /\ pc = "idle"
  /\ Len(pushed) < MaxPush
  /\ inputs' = <<input>>
  /\ pushed' = Append(pushed, input)
  /\ UNCHANGED <<opcodes, pointer, relative_base, build, amplifiers,
                 last_output, intcodes, settings, ops, pc, caller, output,
                 captured, results, emitted, consumed, calls, capStart,
                 lastOp, lastAt, panicMsg, locals>>

push_input(input) ==
  /\ pc = "idle"
  /\ Len(pushed) < MaxPush
  /\ inputs' = Append(inputs, input)
  /\ pushed' = Append(pushed, input)
  /\ UNCHANGED <<opcodes, pointer, relative_base, build, amplifiers,
                 last_output, intcodes, settings, ops, pc, caller, output,
                 captured, results, emitted, consumed, calls, capStart,
                 lastOp, lastAt, panicMsg, locals>>

\* a caller enters run()
run ==
  /\ pc = "idle"
  /\ calls < MaxCalls
  /\ pc' = "run"
  /\ caller' = "user"
  /\ calls' = calls + 1
  /\ lastOp' = "run"
  /\ UNCHANGED <<opcodes, pointer, inputs, relative_base, build, amplifiers,
                 last_output, intcodes, settings, ops, output, captured,
                 results, emitted, pushed, consumed, capStart, lastAt,
                 panicMsg, locals>>

----------------------------------------------------------------------------
(* Program::run, one pass of its loop per action *)

\* next() is None: the loop ends
run_None ==
  /\ pc = "run"
  /\ ~Fetched.some
  /\ Return("None", pointer, HaltNone)
  /\ UNCHANGED <<emitted, consumed>>

\* from_intcode panics
run_decode_panic ==
  /\ pc = "run"
  /\ Fetched.some
  /\ Fetched.ins.panic # "none"
  /\ Abort("decode", Fetched.ins.panic, opcodes, pointer, inputs)
  /\ UNCHANGED <<emitted, consumed>>

run_Add ==
  /\ Arm("Add")
  /\ LET p == take_three_params(Fetched.ins)
         v == Arith(p.one + p.two)
     IN IF v.panic # "none"
          THEN Abort("Add", v.panic, opcodes, pointer, inputs)
          ELSE Store("Add", p.address, v.value, inputs)
  /\ UNCHANGED <<emitted, consumed>>

\* run_Mul with the sum of run_Add for the product
run_Mul_adds ==
  /\ Arm("Mul")
  /\ LET p == take_three_params(Fetched.ins)
         v == Arith(p.one + p.two)
     IN IF v.panic # "none"
          THEN Abort("Mul", v.panic, opcodes, pointer, inputs)
          ELSE Store("Mul", p.address, v.value, inputs)
  /\ UNCHANGED <<emitted, consumed>>

run_Mul ==
  /\ Arm("Mul")
  /\ LET p == take_three_params(Fetched.ins)
         v == Arith(p.one * p.two)
     IN IF v.panic # "none"
          THEN Abort("Mul", v.panic, opcodes, pointer, inputs)
          ELSE Store("Mul", p.address, v.value, inputs)
  /\ UNCHANGED <<emitted, consumed>>

\* run_Input that suspends on an empty queue instead of panicking: run()
\* returns and the pointer stays on the Input instruction
run_Input_waits ==
  /\ Arm("Input")
  /\ LET save_to == take_one_param(Fetched.ins)
     IN IF inputs = <<>>
          THEN /\ Return("Input", pointer, HaltNone)
               /\ UNCHANGED consumed
          ELSE /\ Store("Input", save_to, Head(inputs), Tail(inputs))
               /\ consumed' = consumed + 1
  /\ UNCHANGED emitted

run_Input ==
  /\ Arm("Input")
  /\ LET save_to == take_one_param(Fetched.ins)
     IN IF inputs = <<>>
          THEN /\ Abort("Input", "No input available", opcodes, pointer, inputs)
               /\ UNCHANGED consumed
          ELSE /\ Store("Input", save_to, Head(inputs), Tail(inputs))
               /\ consumed' = consumed + 1
  /\ UNCHANGED emitted

\* run_Output that does not suspend: the value is emitted and the loop goes
\* on to the next instruction
run_Output_continues ==
  /\ Arm("Output")
  /\ LET value == value_at(Fetched.ins.mode_one, pointer + 1, opcodes, relative_base)
     IN /\ emitted' = Append(emitted, value)
        /\ Continue("Output", opcodes, pointer + jump_size("Output"),
                    relative_base, inputs)
  /\ UNCHANGED consumed

run_Output ==
  /\ Arm("Output")
  /\ LET value == value_at(Fetched.ins.mode_one, pointer + 1, opcodes, relative_base)
         ptr == pointer + jump_size("Output")
         nx == next(opcodes, ptr)
     IN /\ emitted' = Append(emitted, value)
        /\ IF ~nx.some
             THEN Abort("Output", "unwrap on None", opcodes, ptr, inputs)
             ELSE IF nx.ins.panic # "none"
               THEN Abort("Output", nx.ins.panic, opcodes, ptr, inputs)
               ELSE Return("Output", ptr, output_state(value, nx.ins.instruction))
  /\ UNCHANGED consumed

run_JumpIfTrue ==
  /\ Arm("JumpIfTrue")
  /\ LET p == take_two_params(Fetched.ins)
     IN Continue("JumpIfTrue", opcodes,
                 (IF p.one # 0 THEN ToUsize(p.two)
                  ELSE pointer + size("JumpIfTrue")) + jump_size("JumpIfTrue"),
                 relative_base, inputs)
  /\ UNCHANGED <<emitted, consumed>>

\* run_JumpIfFalse with the test of JumpIfTrue
run_JumpIfFalse_inverted ==
  /\ Arm("JumpIfFalse")
  /\ LET p == take_two_params(Fetched.ins)
     IN Continue("JumpIfFalse", opcodes,
                 (IF p.one # 0 THEN ToUsize(p.two)
                  ELSE pointer + size("JumpIfFalse")) + jump_size("JumpIfFalse"),
                 relative_base, inputs)
  /\ UNCHANGED <<emitted, consumed>>

run_JumpIfFalse ==
  /\ Arm("JumpIfFalse")
  /\ LET p == take_two_params(Fetched.ins)
     IN Continue("JumpIfFalse", opcodes,
                 (IF p.one = 0 THEN ToUsize(p.two)
                  ELSE pointer + size("JumpIfFalse")) + jump_size("JumpIfFalse"),
                 relative_base, inputs)
  /\ UNCHANGED <<emitted, consumed>>

\* run_LessThan with <= for <
run_LessThan_or_equal ==
  /\ Arm("LessThan")
  /\ LET p == take_three_params(Fetched.ins)
     IN Store("LessThan", p.address, IF p.one <= p.two THEN 1 ELSE 0, inputs)
  /\ UNCHANGED <<emitted, consumed>>

run_LessThan ==
  /\ Arm("LessThan")
  /\ LET p == take_three_params(Fetched.ins)
     IN Store("LessThan", p.address, IF p.one < p.two THEN 1 ELSE 0, inputs)
  /\ UNCHANGED <<emitted, consumed>>

run_Equal ==
  /\ Arm("Equal")
  /\ LET p == take_three_params(Fetched.ins)
     IN Store("Equal", p.address, IF p.one = p.two THEN 1 ELSE 0, inputs)
  /\ UNCHANGED <<emitted, consumed>>

\* run_SetRelativeBase whose read of a missing cell creates the cell, as a
\* write would
run_SetRelativeBase_growing ==
  /\ Arm("SetRelativeBase")
  /\ LET address == position(Fetched.ins.mode_one, pointer + 1, opcodes, relative_base)
         value == value_at(Fetched.ins.mode_one, pointer + 1, opcodes, relative_base)
         rb == Arith(ToI64(relative_base) + value)
     IN IF rb.panic # "none"
          THEN Abort("SetRelativeBase", rb.panic, opcodes, pointer, inputs)
          ELSE Continue("SetRelativeBase",
                        IF address >= Len(opcodes) /\ address < 4 * MaxMem
                          THEN resize(opcodes, address + 1) ELSE opcodes,
                        pointer + jump_size("SetRelativeBase"),
                        ToUsize(rb.value), inputs)
  /\ UNCHANGED <<emitted, consumed>>

\* run_SetRelativeBase that assigns the operand to the relative base instead
\* of adding it
run_SetRelativeBase_assigns ==
  /\ Arm("SetRelativeBase")
  /\ LET value == value_at(Fetched.ins.mode_one, pointer + 1, opcodes, relative_base)
     IN Continue("SetRelativeBase", opcodes,
                 pointer + jump_size("SetRelativeBase"),
                 ToUsize(value), inputs)
  /\ UNCHANGED <<emitted, consumed>>

run_SetRelativeBase ==
  /\ Arm("SetRelativeBase")
  /\ LET value == value_at(Fetched.ins.mode_one, pointer + 1, opcodes, relative_base)
         rb == Arith(ToI64(relative_base) + value)
     IN IF rb.panic # "none"
          THEN Abort("SetRelativeBase", rb.panic, opcodes, pointer, inputs)
          ELSE Continue("SetRelativeBase", opcodes,
                        pointer + jump_size("SetRelativeBase"),
                        ToUsize(rb.value), inputs)
  /\ UNCHANGED <<emitted, consumed>>

\* run_Exit without the `break`: the pass ends with jump_forward(jump_size())
run_Exit_advances ==
  /\ Arm("Exit")
  /\ Return("Exit", pointer + jump_size("Exit"), HaltNone)
  /\ UNCHANGED <<emitted, consumed>>

\* `break`: the pointer stays on the Exit instruction
run_Exit ==
  /\ Arm("Exit")
  /\ Return("Exit", pointer, HaltNone)
  /\ UNCHANGED <<emitted, consumed>>

----------------------------------------------------------------------------
(* Program::run_capturing_output *)

run_capturing_output ==
  /\ pc = "idle"
  /\ calls < MaxCalls
  /\ output' = <<>>
  /\ capStart' = Len(results)
  /\ caller' = "capture"
  /\ pc' = "run"
  /\ calls' = calls + 1
  /\ lastOp' = "run"
  /\ UNCHANGED <<opcodes, pointer, inputs, relative_base, build, amplifiers,
                 last_output, intcodes, settings, ops, captured, results,
                 emitted, pushed, consumed, lastAt, panicMsg, locals>>

\* the ProgramState the loop's `match self.run()` looks at
state == results[Len(results)]

\* capture_Output that puts the value at the front of the collected output
capture_Output_front ==
  /\ pc = "capture"
  /\ state.tag = "Output"
  /\ Len(output) < MaxCapture
  /\ output' = <<state.value>> \o output
  /\ pc' = "run"
  /\ lastOp' = "run"
  /\ UNCHANGED <<opcodes, pointer, inputs, relative_base, build, amplifiers,
                 last_output, intcodes, settings, ops, caller, captured,
                 results, emitted, pushed, consumed, calls, capStart, lastAt,
                 panicMsg, locals>>

\* ProgramState::Output(value) => output.push(value), and the loop calls run()
capture_Output ==
  /\ pc = "capture"
  /\ state.tag = "Output"
  /\ Len(output) < MaxCapture
  /\ output' = Append(output, state.value)
  /\ pc' = "run"
  /\ lastOp' = "run"
  /\ UNCHANGED <<opcodes, pointer, inputs, relative_base, build, amplifiers,
                 last_output, intcodes, settings, ops, caller, captured,
                 results, emitted, pushed, consumed, calls, capStart, lastAt,
                 panicMsg, locals>>

\* capture_HaltSome without the push of the terminal value
capture_HaltSome_drops ==
  /\ pc = "capture"
  /\ state.tag = "Halt"
  /\ state.some
  /\ captured' = output
  /\ pc' = "idle"
  /\ caller' = "none"
  /\ lastOp' = "captured"
  /\ UNCHANGED <<opcodes, pointer, inputs, relative_base, build, amplifiers,
                 last_output, intcodes, settings, ops, output, results,
                 emitted, pushed, consumed, calls, capStart, lastAt, panicMsg,
                 locals>>

\* ProgramState::Halt(Some(value)) => { output.push(value); break }
capture_HaltSome ==
  /\ pc = "capture"
  /\ state.tag = "Halt"
  /\ state.some
  /\ output' = Append(output, state.value)
  /\ captured' = output'
  /\ pc' = "idle"
  /\ caller' = "none"
  /\ lastOp' = "captured"
  /\ UNCHANGED <<opcodes, pointer, inputs, relative_base, build, amplifiers,
                 last_output, intcodes, settings, ops, results, emitted,
                 pushed, consumed, calls, capStart, lastAt, panicMsg, locals>>

\* ProgramState::Halt(None) => break
capture_HaltNone ==
  /\ pc = "capture"
  /\ state.tag = "Halt"
  /\ ~state.some
  /\ captured' = output
  /\ pc' = "idle"
  /\ caller' = "none"
  /\ lastOp' = "captured"
  /\ UNCHANGED <<opcodes, pointer, inputs, relative_base, build, amplifiers,
                 last_output, intcodes, settings, ops, output, results,
                 emitted, pushed, consumed, calls, capStart, lastAt, panicMsg,
                 locals>>

----------------------------------------------------------------------------

Next ==
  \/ \E input \in InputVals : push_input(input)
  \/ run
  \/ run_None
  \/ run_decode_panic
  \/ run_Add
  \/ run_Mul
  \/ run_Input
  \/ run_Output
  \/ run_JumpIfTrue
  \/ run_JumpIfFalse
  \/ run_LessThan
  \/ run_Equal
  \/ run_SetRelativeBase
  \/ run_Exit
  \/ run_capturing_output
  \/ capture_Output
  \/ capture_HaltSome
  \/ capture_HaltNone

Spec == Init /\ [][Next]_vars

----------------------------------------------------------------------------
(* The decoder on its own: one-cell programs over a range of cells, each    *)
(* run until the decoder has been applied to the cell                        *)

MaxDigit == 3
MaxHigh == 12

\* the low two digits the cells are built from
DecodeOps == (0..10) \cup {98, 99}

DecodeCells ==
  { op + 100 * one + 1000 * two + 10000 * three :
      op \in DecodeOps, one \in 0..MaxDigit, two \in 0..MaxDigit,
      three \in 0..MaxHigh }

DecodeInit ==
  \E cell \in DecodeCells :
    Fresh([opcodes |-> <<cell>>, relative_base |-> 0])

DecodeNext ==
  \/ run
  \/ run_None
  \/ run_decode_panic
  \/ run_Add
  \/ run_Mul
  \/ run_Input
  \/ run_Output
  \/ run_JumpIfTrue
  \/ run_JumpIfFalse
  \/ run_LessThan
  \/ run_Equal
  \/ run_SetRelativeBase
  \/ run_Exit

DecodeSpec == DecodeInit /\ [][DecodeNext]_vars

----------------------------------------------------------------------------
(* The cells at their full width.  Spec keeps the cells inside a short word *)
(* (UsizeModulus); here a cell is the 8 bytes of an i64, least significant  *)
(* first, in two's complement, and the arms of run() that the day-9 test    *)
(* programs use (Mul, Output, Exit) work on such cells.  Addresses stay in  *)
(* the short word.                                                           *)

\* bytes of an i64
WordBytes == 8

\* n zero bytes
RECURSIVE Zeros(_)
Zeros(n) == IF n = 0 THEN <<>> ELSE <<0>> \o Zeros(n - 1)

\* the k low bytes of the integer n, two's complement
RECURSIVE IntBytes(_, _)
IntBytes(n, k) ==
  IF k = 0 THEN <<>> ELSE <<n % 256>> \o IntBytes(n \div 256, k - 1)

\* the i64 an integer literal of the model denotes
Word(n) == IntBytes(n, WordBytes)

\* x * m + carry for unsigned bytes x and a small m: Len(x) + 1 bytes
RECURSIVE UMulSmall(_, _, _)
UMulSmall(x, m, carry) ==
  IF x = <<>> THEN <<carry>>
  ELSE LET t == Head(x) * m + carry
       IN <<t % 256>> \o UMulSmall(Tail(x), m, t \div 256)

\* x + y + carry for unsigned bytes of one length, the carry out dropped
RECURSIVE UAdd(_, _, _)
UAdd(x, y, carry) ==
  IF x = <<>> THEN <<>>
  ELSE LET t == Head(x) + Head(y) + carry
       IN <<t % 256>> \o UAdd(Tail(x), Tail(y), t \div 256)

\* the unsigned product of x and y: Len(x) + Len(y) bytes
RECURSIVE UMul(_, _)
UMul(x, y) ==
  IF x = <<>> THEN Zeros(Len(y))
  ELSE UAdd(UMulSmall(y, Head(x), 0) \o Zeros(Len(x) - 1),
            <<0>> \o UMul(Tail(x), y), 0)

\* the i64 a decimal literal of the source denotes, digits most significant
\* first (the literals of the tests are below 2^63)
RECURSIVE DecimalFrom(_, _)
DecimalFrom(acc, digits) ==
  IF digits = <<>> THEN acc
  ELSE DecimalFrom(SubSeq(UMulSmall(acc, 10, Head(digits)), 1, WordBytes),
                   Tail(digits))

Decimal(digits) == DecimalFrom(Zeros(WordBytes), digits)

IsNegative(w) == w[WordBytes] >= 128

\* wrapping negation
Negate(w) == UAdd([i \in 1..Len(w) |-> 255 - w[i]], Zeros(Len(w)), 1)

\* the magnitude of w as unsigned bytes (2^63 for i64::MIN)
Magnitude(w) == IF IsNegative(w) THEN Negate(w) ELSE w

\* the cell is a value of the short word of the addresses and opcodes
IsShort(w) ==
  \/ \A i \in 4..WordBytes : w[i] = 0
  \/ \A i \in 4..WordBytes : w[i] = 255

\* the integer a short cell holds
ShortInt(w) ==
  LET low == w[1] + 256 * w[2] + 65536 * w[3]
  IN IF IsNegative(w) THEN low - 16777216 ELSE low

\* `left * right` on i64 as if the cells were i32: the product is cut to its
\* low 4 bytes and sign-extended
i64_mul_narrow(left, right) ==
  LET product == UMul(Magnitude(left), Magnitude(right))
      low == SubSeq(product, 1, WordBytes)
      signed == IF IsNegative(left) # IsNegative(right) THEN Negate(low) ELSE low
  IN [panic |-> "none",
      value |-> [i \in 1..WordBytes |->
                   IF i <= 4 THEN signed[i]
                   ELSE IF signed[4] >= 128 THEN 255 ELSE 0]]

\* `left * right` on i64: the exact product when it is an i64; otherwise a
\* debug build panics and a release build keeps the low 64 bits
i64_mul(left, right) ==
  LET product == UMul(Magnitude(left), Magnitude(right))
      low == SubSeq(product, 1, WordBytes)
      high == SubSeq(product, WordBytes + 1, 2 * WordBytes)
      negative == IsNegative(left) # IsNegative(right)
      signed == IF negative THEN Negate(low) ELSE low
      fits == /\ high = Zeros(WordBytes)
              /\ IF negative
                   THEN low = Zeros(WordBytes) \/ IsNegative(signed)
                   ELSE ~IsNegative(low)
  IN IF ~fits /\ build = "debug"
       THEN [panic |-> "arithmetic overflow", value |-> signed]
       ELSE [panic |-> "none", value |-> signed]

\* Program::read on full-width cells
wide_read(mem, address) ==
  IF address > Len(mem) - 1 THEN Word(0) ELSE mem[address + 1]

\* Program::set on full-width cells: the cells resize() adds are zero
wide_set(mem, address, value) ==
  LET s == set(mem, address, value)
  IN [panic |-> s.panic,
      mem |-> [i \in 1..Len(s.mem) |->
                 IF i > Len(mem) /\ i # address + 1 THEN Word(0) ELSE s.mem[i]]]

\* ParamMode::position on full-width cells
wide_position(mode, pos, mem, rb) ==
  CASE mode = "Position" -> ToUsize(ShortInt(wide_read(mem, pos)))
    [] mode = "Immediate" -> pos
    [] mode = "Relative" -> ToUsize(ToI64(rb) + ShortInt(wide_read(mem, pos)))

\* ParamMode::value_at on full-width cells
wide_value_at(mode, pos, mem, rb) ==
  wide_read(mem, wide_position(mode, pos, mem, rb))

\* Program::next on full-width cells
wide_next(mem, ptr) ==
  IF ptr < Len(mem)
    THEN [some |-> TRUE, ins |-> from_intcode(ShortInt(wide_read(mem, ptr)))]
    ELSE [some |-> FALSE, ins |-> from_intcode(99)]

WideFetched == wide_next(opcodes, pointer)

\* run()'s match takes the arm of `instruction`
WideArm(instruction) ==
  /\ pc = "run"
  /\ WideFetched.some
  /\ WideFetched.ins.panic = "none"
  /\ WideFetched.ins.instruction = instruction

wide_None ==
  /\ pc = "run"
  /\ ~WideFetched.some
  /\ Return("None", pointer, HaltNone)
  /\ UNCHANGED <<emitted, consumed>>

wide_Mul ==
  /\ WideArm("Mul")
  /\ LET ins == WideFetched.ins
         left == wide_value_at(ins.mode_one, pointer + 1, opcodes, relative_base)
         right == wide_value_at(ins.mode_two, pointer + 2, opcodes, relative_base)
         out == wide_position(ins.mode_three, pointer + 3, opcodes, relative_base)
         v == i64_mul(left, right)
         s == wide_set(opcodes, out, v.value)
     IN IF v.panic # "none"
          THEN Abort("Mul", v.panic, opcodes, pointer, inputs)
          ELSE IF s.panic # "none"
            THEN Abort("Mul", s.panic, s.mem, pointer, inputs)
            ELSE Continue("Mul", s.mem, pointer + jump_size("Mul"),
                          relative_base, inputs)
  /\ UNCHANGED <<emitted, consumed>>

wide_Output ==
  /\ WideArm("Output")
  /\ LET value == wide_value_at(WideFetched.ins.mode_one, pointer + 1, opcodes,
                               relative_base)
         ptr == pointer + jump_size("Output")
         nx == wide_next(opcodes, ptr)
     IN /\ emitted' = Append(emitted, value)
        /\ IF ~nx.some
             THEN Abort("Output", "unwrap on None", opcodes, ptr, inputs)
             ELSE IF nx.ins.panic # "none"
               THEN Abort("Output", nx.ins.panic, opcodes, ptr, inputs)
               ELSE Return("Output", ptr, output_state(value, nx.ins.instruction))
  /\ UNCHANGED consumed

wide_Exit ==
  /\ WideArm("Exit")
  /\ Return("Exit", pointer, HaltNone)
  /\ UNCHANGED <<emitted, consumed>>

\* the programs of test_day_9 with a choice of values: multiply two cells
\* into cell 7 and output it; multiply into the last cell and run off the
\* end; output a literal
MulThenOutput(a, b) ==
  <<Word(1102), a, b, Word(7), Word(4), Word(7), Word(99), Word(0)>>
MulOnly(a, b) == <<Word(1102), a, b, Word(3)>>
OutputLiteral(v) == <<Word(104), v, Word(99)>>

\* 34915192 and 1125899906842624 of the test; 3037000500 is the least value
\* whose square is not an i64; 4294967296 is 2^32
WideValues ==
  { Word(0), Word(1),
    Decimal(<<3, 4, 9, 1, 5, 1, 9, 2>>),
    Negate(Decimal(<<3, 4, 9, 1, 5, 1, 9, 2>>)),
    Decimal(<<3, 0, 3, 7, 0, 0, 0, 5, 0, 0>>),
    Decimal(<<4, 2, 9, 4, 9, 6, 7, 2, 9, 6>>),
    Decimal(<<1, 1, 2, 5, 8, 9, 9, 9, 0, 6, 8, 4, 2, 6, 2, 4>>) }

WidePrograms ==
  {MulThenOutput(a, b) : a \in WideValues, b \in WideValues}
    \cup {MulOnly(a, b) : a \in WideValues, b \in WideValues}
    \cup {OutputLiteral(v) : v \in WideValues}

WideInit ==
  \E program \in WidePrograms :
    Fresh([opcodes |-> program, relative_base |-> 0])

WideNext ==
  \/ run
  \/ wide_None
  \/ wide_Mul
  \/ wide_Output
  \/ wide_Exit

WideSpec == WideInit /\ [][WideNext]_vars

----------------------------------------------------------------------------
(* The day-7 copy of the VM: src/07-amplifiers/src/main.rs *)

\* ParamMode::from_digit: every digit but 0 is Immediate
day7_from_digit(digit) == IF digit = 0 THEN "Position" ELSE "Immediate"

\* Instruction::from_opcode: one decimal digit, 9 is Exit
day7_from_opcode(digit) ==
  CASE digit = 1 -> "Add"
    [] digit = 2 -> "Mul"
    [] digit = 3 -> "Input"
    [] digit = 4 -> "Output"
    [] digit = 5 -> "JumpIfTrue"
    [] digit = 6 -> "JumpIfFalse"
    [] digit = 7 -> "LessThan"
    [] digit = 8 -> "Equal"
    [] digit = 9 -> "Exit"
    [] OTHER -> "unknown"

\* Instruction::size: Exit has size 0
day7_size(instruction) ==
  CASE instruction \in {"Add", "Mul", "LessThan", "Equal"} -> 4
    [] instruction \in {"Input", "Output"} -> 2
    [] instruction \in {"JumpIfTrue", "JumpIfFalse"} -> 3
    [] OTHER -> 0

day7_jump_size(instruction) ==
  IF jumps(instruction) THEN 0 ELSE day7_size(instruction)

\* digits[k] of from_intcode: the loop peels decimal digits while the rest
\* is above 9, pushes the rest, and resize_with(5) pads or cuts to five
day7_digit(intcode, k) ==
  IF intcode < 0
    THEN IF k = 0 THEN intcode ELSE 0
    ELSE (intcode \div (10 ^ k)) % 10

day7_from_intcode(intcode) ==
  LET instruction == day7_from_opcode(day7_digit(intcode, 0))
  IN [instruction |-> instruction,
      mode_one |-> day7_from_digit(day7_digit(intcode, 2)),
      mode_two |-> day7_from_digit(day7_digit(intcode, 3)),
      mode_three |-> day7_from_digit(day7_digit(intcode, 4)),
      panic |-> IF instruction = "unknown" THEN "Unknown opcode" ELSE "none"]

\* instructions[i]: indexing a Vec panics outside its length; an i64 that is
\* negative is, as usize, beyond every length
day7_index(instructions, i) ==
  IF i >= 0 /\ i < Len(instructions)
    THEN [panic |-> "none", value |-> instructions[i + 1]]
    ELSE [panic |-> "index out of bounds", value |-> 0]

\* ParamMode::position
day7_position(mode, at, instructions) ==
  IF mode = "Position"
    THEN day7_index(instructions, at)
    ELSE [panic |-> "none", value |-> at]

\* ParamMode::value_at
day7_value_at(mode, at, instructions) ==
  LET address == day7_position(mode, at, instructions)
  IN IF address.panic # "none" THEN address
     ELSE day7_index(instructions, address.value)

\* Program::set: self.opcodes[address] = value
day7_set(mem, address, value) ==
  IF address >= 0 /\ address < Len(mem)
    THEN [panic |-> "none", mem |-> [mem EXCEPT ![address + 1] = value]]
    ELSE [panic |-> "index out of bounds", mem |-> mem]

\* Program::next
day7_next(mem, ptr) ==
  IF ptr < Len(mem)
    THEN [some |-> TRUE, ins |-> day7_from_intcode(mem[ptr + 1])]
    ELSE [some |-> FALSE, ins |-> day7_from_intcode(99)]

\* Program::peek: the instruction at pointer + next().unwrap().size()
day7_peek(mem, ptr) ==
  LET nx == day7_next(mem, ptr)
      next_address == ptr + day7_size(nx.ins.instruction)
  IN IF ~nx.some
       THEN [panic |-> "unwrap on None", some |-> FALSE, ins |-> nx.ins]
       ELSE IF nx.ins.panic # "none"
         THEN [panic |-> nx.ins.panic, some |-> FALSE, ins |-> nx.ins]
         ELSE IF next_address < Len(mem)
           THEN [panic |-> day7_from_intcode(mem[next_address + 1]).panic,
                 some |-> TRUE,
                 ins |-> day7_from_intcode(mem[next_address + 1])]
           ELSE [panic |-> "none", some |-> FALSE, ins |-> nx.ins]

\* the first panic among the operands, in the order they are taken
FirstPanic(operands) ==
  IF \A i \in 1..Len(operands) : operands[i].panic = "none" THEN "none"
  ELSE LET i == CHOOSE i \in 1..Len(operands) :
                  /\ operands[i].panic # "none"
                  /\ \A j \in 1..(i - 1) : operands[j].panic = "none"
       IN operands[i].panic

day7_take_two_params(ins) ==
  LET one == day7_value_at(ins.mode_one, pointer + 1, opcodes)
      two == day7_value_at(ins.mode_two, pointer + 2, opcodes)
  IN [panic |-> FirstPanic(<<one, two>>), one |-> one.value, two |-> two.value]

day7_take_three_params(ins) ==
  LET one == day7_value_at(ins.mode_one, pointer + 1, opcodes)
      two == day7_value_at(ins.mode_two, pointer + 2, opcodes)
      address == day7_position(ins.mode_three, pointer + 3, opcodes)
  IN [panic |-> FirstPanic(<<one, two, address>>),
      one |-> one.value, two |-> two.value, address |-> address.value]

Day7Fetched == day7_next(opcodes, pointer)

Day7Arm(instruction) ==
  /\ pc = "run"
  /\ Day7Fetched.some
  /\ Day7Fetched.ins.panic = "none"
  /\ Day7Fetched.ins.instruction = instruction

\* self.set(address, value), then the jump_forward that ends the pass
day7_Store(op, panic, address, value, inq) ==
  LET s == day7_set(opcodes, address, value)
  IN IF panic # "none"
       THEN Abort(op, panic, opcodes, pointer, inq)
       ELSE IF s.panic # "none"
         THEN Abort(op, s.panic, opcodes, pointer, inq)
         ELSE Continue(op, s.mem, pointer + day7_jump_size(op), relative_base, inq)

day7_None ==
  /\ pc = "run"
  /\ ~Day7Fetched.some
  /\ Return("None", pointer, HaltNone)
  /\ UNCHANGED <<emitted, consumed>>

day7_decode_panic ==
  /\ pc = "run"
  /\ Day7Fetched.some
  /\ Day7Fetched.ins.panic # "none"
  /\ Abort("decode", Day7Fetched.ins.panic, opcodes, pointer, inputs)
  /\ UNCHANGED <<emitted, consumed>>

day7_Add ==
  /\ Day7Arm("Add")
  /\ LET p == day7_take_three_params(Day7Fetched.ins)
         v == Arith(p.one + p.two)
     IN day7_Store("Add", FirstPanic(<<p, v>>), p.address, v.value, inputs)
  /\ UNCHANGED <<emitted, consumed>>

day7_Mul ==
  /\ Day7Arm("Mul")
  /\ LET p == day7_take_three_params(Day7Fetched.ins)
         v == Arith(p.one * p.two)
     IN day7_Store("Mul", FirstPanic(<<p, v>>), p.address, v.value, inputs)
  /\ UNCHANGED <<emitted, consumed>>

day7_Input ==
  /\ Day7Arm("Input")
  /\ LET save_to == day7_position(Day7Fetched.ins.mode_one, pointer + 1, opcodes)
         panic == IF save_to.panic # "none" THEN save_to.panic
                  ELSE IF inputs = <<>> THEN "No input available" ELSE "none"
     IN IF panic # "none"
          THEN /\ Abort("Input", panic, opcodes, pointer, inputs)
               /\ UNCHANGED consumed
          ELSE /\ day7_Store("Input", "none", save_to.value, Head(inputs), Tail(inputs))
               /\ consumed' = consumed + 1
  /\ UNCHANGED emitted

\* value_at, jump_forward, then the match on peek().unwrap().instruction
day7_Output ==
  /\ Day7Arm("Output")
  /\ LET value == day7_value_at(Day7Fetched.ins.mode_one, pointer + 1, opcodes)
         ptr == pointer + day7_jump_size("Output")
         pk == day7_peek(opcodes, ptr)
     IN IF value.panic # "none"
          THEN /\ Abort("Output", value.panic, opcodes, pointer, inputs)
               /\ UNCHANGED emitted
          ELSE /\ emitted' = Append(emitted, value.value)
               /\ IF pk.panic # "none"
                    THEN Abort("Output", pk.panic, opcodes, ptr, inputs)
                    ELSE IF ~pk.some
                      THEN Abort("Output", "unwrap on None", opcodes, ptr, inputs)
                      ELSE Return("Output", ptr,
                                  IF pk.ins.instruction = "Exit"
                                    THEN HaltSome(value.value)
                                    ELSE Output(value.value))
  /\ UNCHANGED consumed

\* self.jump(value as usize) or jump_forward(size())
day7_Jump(op, p, taken) ==
  IF p.panic # "none"
    THEN Abort(op, p.panic, opcodes, pointer, inputs)
    ELSE Continue(op, opcodes,
                  (IF taken THEN ToUsize(p.two)
                   ELSE pointer + day7_size(op)) + day7_jump_size(op),
                  relative_base, inputs)

day7_JumpIfTrue ==
  /\ Day7Arm("JumpIfTrue")
  /\ LET p == day7_take_two_params(Day7Fetched.ins)
     IN day7_Jump("JumpIfTrue", p, p.one # 0)
  /\ UNCHANGED <<emitted, consumed>>

day7_JumpIfFalse ==
  /\ Day7Arm("JumpIfFalse")
  /\ LET p == day7_take_two_params(Day7Fetched.ins)
     IN day7_Jump("JumpIfFalse", p, p.one = 0)
  /\ UNCHANGED <<emitted, consumed>>

day7_LessThan ==
  /\ Day7Arm("LessThan")
  /\ LET p == day7_take_three_params(Day7Fetched.ins)
     IN day7_Store("LessThan", p.panic, p.address,
                   IF p.one < p.two THEN 1 ELSE 0, inputs)
  /\ UNCHANGED <<emitted, consumed>>

day7_Equal ==
  /\ Day7Arm("Equal")
  /\ LET p == day7_take_three_params(Day7Fetched.ins)
     IN day7_Store("Equal", p.panic, p.address,
                   IF p.one = p.two THEN 1 ELSE 0, inputs)
  /\ UNCHANGED <<emitted, consumed>>

\* Instruction::Exit => break, and run() returns Halt(None)
day7_Exit ==
  /\ Day7Arm("Exit")
  /\ Return("Exit", pointer, HaltNone)
  /\ UNCHANGED <<emitted, consumed>>

\* the programs of the day-7 tests, and programs that put an Output before
\* each kind of instruction
Day7Programs ==
  { <<3, 9, 8, 9, 10, 9, 4, 9, 99, -1, 8>>,
    <<3, 9, 7, 9, 10, 9, 4, 9, 99, -1, 8>>,
    <<3, 3, 1108, -1, 8, 3, 4, 3, 99>>,
    <<3, 3, 1107, -1, 8, 3, 4, 3, 99>>,
    <<1002, 4, 3, 4, 33>>,
    <<3, 12, 6, 12, 15, 1, 13, 14, 13, 4, 13, 99, -1, 0, 1, 9>>,
    <<3, 3, 1105, -1, 9, 1101, 0, 0, 12, 4, 12, 99, 1>>,
    <<4, 0, 99>>,
    <<104, 5, 104, 6, 99>>,
    <<104, 5, 1101, 1, 1, 0, 99>>,
    <<104, 5, 1101, 1, 1, 0, 104, 6, 99>>,
    <<104, 5, 3, 0>>,
    <<3, 0, 4, 0, 3, 1, 4, 1, 99>>,
    <<1101, 1, 1, 0>>,
    <<1, 0, 0, 9, 99>>,
    <<104, 5, 0>>,
    <<0>> }

Day7Init ==
  \E program \in Day7Programs :
    Fresh([opcodes |-> program, relative_base |-> 0])

Day7Next ==
  \/ \E input \in InputVals : push_input(input)
  \/ run
  \/ day7_None
  \/ day7_decode_panic
  \/ day7_Add
  \/ day7_Mul
  \/ day7_Input
  \/ day7_Output
  \/ day7_JumpIfTrue
  \/ day7_JumpIfFalse
  \/ day7_LessThan
  \/ day7_Equal
  \/ day7_Exit

Day7Spec == Day7Init /\ [][Day7Next]_vars

----------------------------------------------------------------------------

(* feedback_amplifier_power: src/11-painting-robot/src/main.rs, whose VM is
   the one above *)

\* a Program the driver does not hold in `amplifier`: it waits in the queue
Parked(mem, ptr, inq, rb, given, id) ==
  [opcodes |-> mem, pointer |-> ptr, inputs |-> inq, relative_base |-> rb,
   pushed |-> given, id |-> id]

\* the driver's `amplifier` binding holds no Program
Moved ==
  /\ opcodes' = <<>>
  /\ pointer' = 0
  /\ inputs' = <<>>
  /\ relative_base' = 0
  /\ pushed' = <<>>

\* one pass of `for input in settings.iter()`: Program::new of a clone of
\* intcodes, push_input of the phase setting, push_back
amp_new ==
  /\ pc = "amp_for"
  /\ Len(amplifiers) < Len(settings)
  /\ amplifiers' = Append(amplifiers,
                          Parked(intcodes, 0, <<settings[Len(amplifiers) + 1]>>, 0,
                                 <<settings[Len(amplifiers) + 1]>>,
                                 Len(amplifiers) + 1))
  /\ UNCHANGED <<opcodes, pointer, inputs, relative_base, build, pc, caller,
                 output, captured, results, emitted, pushed, consumed, calls,
                 capStart, lastOp, lastAt, panicMsg, last_output, intcodes,
                 settings, ops, locals>>

\* the construction loop is over
amp_for_end ==
  /\ pc = "amp_for"
  /\ Len(amplifiers) = Len(settings)
  /\ pc' = "amp_while"
  /\ UNCHANGED <<opcodes, pointer, inputs, relative_base, build, caller,
                 output, captured, results, emitted, pushed, consumed, calls,
                 capStart, lastOp, lastAt, panicMsg, amplifiers, last_output,
                 intcodes, settings, ops, locals>>

\* `while let Some(mut amplifier) = amplifiers.pop_front()`, then
\* amplifier.push_input(last_output) and the call of amplifier.run()
amp_resume ==
  /\ pc = "amp_while"
  /\ amplifiers # <<>>
  /\ LET amplifier == Head(amplifiers)
     IN /\ amplifiers' = Tail(amplifiers)
        /\ opcodes' = amplifier.opcodes
        /\ pointer' = amplifier.pointer
        /\ relative_base' = amplifier.relative_base
        /\ inputs' = Append(amplifier.inputs, last_output)
        /\ pushed' = Append(amplifier.pushed, last_output)
        /\ ops' = Append(ops, [id |-> amplifier.id, given |-> last_output])
  /\ pc' = "run"
  /\ caller' = "amp"
  /\ calls' = calls + 1
  /\ lastOp' = "run"
  /\ UNCHANGED <<build, output, captured, results, emitted, consumed,
                 capStart, lastAt, panicMsg, last_output, intcodes, settings,
                 locals>>

\* amp_Halt whose unwrap_or falls back to 0 instead of last_output
amp_Halt_forgets ==
  /\ pc = "idle"
  /\ caller = "amp"
  /\ state.tag = "Halt"
  /\ last_output' = IF state.some THEN state.value ELSE 0
  /\ Moved
  /\ pc' = "amp_while"
  /\ UNCHANGED <<build, caller, output, captured, results, emitted, consumed,
                 calls, capStart, lastOp, lastAt, panicMsg, amplifiers,
                 intcodes, settings, ops, locals>>

\* ProgramState::Halt(value) => last_output = value.unwrap_or(last_output);
\* the amplifier is dropped
amp_Halt ==
  /\ pc = "idle"
  /\ caller = "amp"
  /\ state.tag = "Halt"
  /\ last_output' = IF state.some THEN state.value ELSE last_output
  /\ Moved
  /\ pc' = "amp_while"
  /\ UNCHANGED <<build, caller, output, captured, results, emitted, consumed,
                 calls, capStart, lastOp, lastAt, panicMsg, amplifiers,
                 intcodes, settings, ops, locals>>

\* ProgramState::Output(value) => last_output = value; push_back(amplifier)
amp_Output ==
  /\ pc = "idle"
  /\ caller = "amp"
  /\ state.tag = "Output"
  /\ last_output' = state.value
  /\ amplifiers' = Append(amplifiers,
                          Parked(opcodes, pointer, inputs, relative_base,
                                 pushed, ops[Len(ops)].id))
  /\ Moved
  /\ pc' = "amp_while"
  /\ UNCHANGED <<build, caller, output, captured, results, emitted, consumed,
                 calls, capStart, lastOp, lastAt, panicMsg, intcodes,
                 settings, ops, locals>>

\* the queue is empty: the function returns last_output
amp_return ==
  /\ pc = "amp_while"
  /\ amplifiers = <<>>
  /\ pc' = "amp_done"
  /\ UNCHANGED <<opcodes, pointer, inputs, relative_base, build, caller,
                 output, captured, results, emitted, pushed, consumed, calls,
                 capStart, lastOp, lastAt, panicMsg, amplifiers, last_output,
                 intcodes, settings, ops, locals>>

\* an amplifier that adds its phase to the signal and halts
AddPhase == <<3, 0, 3, 1, 1, 0, 1, 1, 4, 1, 99>>

\* an amplifier that doubles the signal and halts
Double == <<3, 0, 3, 1, 1002, 1, 2, 1, 4, 1, 99>>

\* an amplifier in the shape of the day-7 part-2 programs: it takes its
\* phase as a counter, then per pass reads the signal, adds 1, puts it out,
\* counts down and halts when the counter is 0
CountDown ==
  <<3, 18, 3, 19, 1001, 19, 1, 19, 4, 19, 1001, 18, -1, 18, 1005, 18, 2,
    99, 0, 0>>

\* an amplifier that uses the relative base and both comparisons on the way
\* to its output
Compare ==
  <<3, 50, 3, 51, 109, 1, 1007, 51, 5, 52, 1008, 50, 1, 53, 1006, 52, 21,
    1002, 51, 2, 51, 4, 51, 99>>

\* amplifiers that never put out a value, read more than they are given, or
\* run into a cell that is no instruction
JumpsOut == <<3, 0, 1105, 1, 1000>>

Greedy == <<3, 0, 3, 0, 3, 0, 99>>

Broken == <<3, 0, 0>>

AmpPrograms == {AddPhase, Double, CountDown, Compare, JumpsOut, Greedy, Broken}

AmpSettings == {<<1>>, <<1, 2>>, <<2, 1>>, <<2, 2>>, <<1, 2, 3>>, <<3, 1, 2>>}

\* feedback_amplifier_power is entered with its two arguments
AmpInit ==
  /\ intcodes \in AmpPrograms
  /\ settings \in AmpSettings
  /\ amplifiers = <<>>
  /\ last_output = 0
  /\ ops = <<>>
  /\ locals = <<>>
  /\ opcodes = <<>>
  /\ pointer = 0
  /\ inputs = <<>>
  /\ relative_base = 0
  /\ build \in {"debug", "release"}
  /\ pc = "amp_for"
  /\ caller = "none"
  /\ output = <<>>
  /\ captured = <<>>
  /\ results = <<>>
  /\ emitted = <<>>
  /\ pushed = <<>>
  /\ consumed = 0
  /\ calls = 0
  /\ capStart = 0
  /\ lastOp = "new"
  /\ lastAt = 0
  /\ panicMsg = "none"

AmpNext ==
  \/ amp_new
  \/ amp_for_end
  \/ amp_resume
  \/ amp_Halt
  \/ amp_Output
  \/ amp_return
  \/ run_None
  \/ run_decode_panic
  \/ run_Add
  \/ run_Mul
  \/ run_Input
  \/ run_Output
  \/ run_JumpIfTrue
  \/ run_JumpIfFalse
  \/ run_LessThan
  \/ run_Equal
  \/ run_SetRelativeBase
  \/ run_Exit

AmpSpec == AmpInit /\ [][AmpNext]_vars

----------------------------------------------------------------------------

(* Two Programs owned by one caller *)

\* a call as the history `ops` records it: the method and its argument
Call(method, argument) == [method |-> method, argument |-> argument]

\* the Program the caller is not operating on, with the history of its calls
Other(mem, ptr, inq, rb, given, returned, made, built) ==
  [opcodes |-> mem, pointer |-> ptr, inputs |-> inq, relative_base |-> rb,
   pushed |-> given, results |-> returned, ops |-> made, intcodes |-> built]

\* push_input on a queue the two Programs share
pair_push_input_shared(input) ==
  /\ pc = "idle"
  /\ Len(pushed) < MaxPush
  /\ inputs' = Append(inputs, input)
  /\ pushed' = Append(pushed, input)
  /\ ops' = Append(ops, Call("push_input", input))
  /\ amplifiers' = [amplifiers EXCEPT ![1].inputs = Append(@, input)]
  /\ lastOp' = "push_input"
  /\ UNCHANGED <<opcodes, pointer, relative_base, build, pc, caller, output,
                 captured, results, emitted, consumed, calls, capStart,
                 lastAt, panicMsg, last_output, intcodes, settings, locals>>

\* pair_run that starts every run() with an empty queue: what was pushed
\* before the call is lost
pair_run_clears ==
  /\ pc = "idle"
  /\ calls < MaxCalls
  /\ pc' = "run"
  /\ caller' = "user"
  /\ calls' = calls + 1
  /\ ops' = Append(ops, Call("run", 0))
  /\ lastOp' = "run"
  /\ inputs' = <<>>
  /\ UNCHANGED <<opcodes, pointer, relative_base, build, output, captured,
                 results, emitted, pushed, consumed, capStart, lastAt,
                 panicMsg, amplifiers, last_output, intcodes, settings,
                 locals>>

\* push_input on the Program the caller holds
pair_push_input(input) ==
  /\ pc = "idle"
  /\ Len(pushed) < MaxPush
  /\ inputs' = Append(inputs, input)
  /\ pushed' = Append(pushed, input)
  /\ ops' = Append(ops, Call("push_input", input))
  /\ lastOp' = "push_input"
  /\ UNCHANGED <<opcodes, pointer, relative_base, build, pc, caller, output,
                 captured, results, emitted, consumed, calls, capStart,
                 lastAt, panicMsg, amplifiers, last_output, intcodes,
                 settings, locals>>

\* the caller enters run() on the Program it holds
pair_run ==
  /\ pc = "idle"
  /\ calls < MaxCalls
  /\ pc' = "run"
  /\ caller' = "user"
  /\ calls' = calls + 1
  /\ ops' = Append(ops, Call("run", 0))
  /\ lastOp' = "run"
  /\ UNCHANGED <<opcodes, pointer, inputs, relative_base, build, output,
                 captured, results, emitted, pushed, consumed, capStart,
                 lastAt, panicMsg, amplifiers, last_output, intcodes,
                 settings, locals>>

\* the caller turns to its other Program
pair_switch ==
  /\ pc = "idle"
  /\ lastOp # "switch"
  /\ opcodes' = amplifiers[1].opcodes
  /\ pointer' = amplifiers[1].pointer
  /\ inputs' = amplifiers[1].inputs
  /\ relative_base' = amplifiers[1].relative_base
  /\ pushed' = amplifiers[1].pushed
  /\ results' = amplifiers[1].results
  /\ ops' = amplifiers[1].ops
  /\ intcodes' = amplifiers[1].intcodes
  /\ amplifiers' = <<Other(opcodes, pointer, inputs, relative_base, pushed,
                           results, ops, intcodes)>>
  /\ lastOp' = "switch"
  /\ UNCHANGED <<build, pc, caller, output, captured, emitted, consumed,
                 calls, capStart, lastAt, panicMsg, last_output, settings,
                 locals>>

\* reads a value and puts it out
Echo == <<3, 0, 4, 0, 99>>

\* reads two values and puts out their sum, again and again
Sum == <<3, 13, 3, 14, 1, 13, 14, 13, 4, 13, 1105, 1, 0, 0, 0>>

\* puts out two values of its own
TwoOutputs == <<104, 5, 104, 6, 99>>

\* reads a value and puts it out, twice
EchoTwice == <<3, 0, 4, 0, 3, 0, 4, 0, 99>>

PairPrograms == {Echo, Sum, TwoOutputs, EchoTwice}

\* the values the caller pushes
PairVals == {7, 8}

\* two Programs built by Program::new, the second possibly from the same
\* sequence as the first
PairInit ==
  \E first \in PairPrograms, second \in PairPrograms :
    /\ opcodes = first
    /\ intcodes = first
    /\ amplifiers = <<Other(second, 0, <<>>, 0, <<>>, <<>>, <<>>, second)>>
    /\ pointer = 0
    /\ inputs = <<>>
    /\ relative_base = 0
    /\ build \in {"debug", "release"}
    /\ pc = "idle"
    /\ caller = "none"
    /\ output = <<>>
    /\ captured = <<>>
    /\ results = <<>>
    /\ emitted = <<>>
    /\ pushed = <<>>
    /\ consumed = 0
    /\ calls = 0
    /\ capStart = 0
    /\ lastOp = "new"
    /\ lastAt = 0
    /\ panicMsg = "none"
    /\ last_output = 0
    /\ settings = <<>>
    /\ ops = <<>>
    /\ locals = <<>>
  /\ locals = <<>>

PairNext ==
  \/ \E input \in PairVals : pair_push_input(input)
  \/ pair_run
  \/ pair_switch
  \/ run_Add
  \/ run_Input
  \/ run_Output
  \/ run_JumpIfTrue
  \/ run_Exit

PairSpec == PairInit /\ [][PairNext]_vars

----------------------------------------------------------------------------

(* PainterRobot::paint: src/11-painting-robot/src/main.rs *)

\* Direction::turn
turn(direction, left) ==
  CASE direction = "Up" -> IF left THEN "Left" ELSE "Right"
    [] direction = "Down" -> IF left THEN "Right" ELSE "Left"
    [] direction = "Left" -> IF left THEN "Down" ELSE "Up"
    [] direction = "Right" -> IF left THEN "Up" ELSE "Down"

\* Direction::next_position
next_position(direction, from) ==
  CASE direction = "Up" -> <<from[1], from[2] - 1>>
    [] direction = "Down" -> <<from[1], from[2] + 1>>
    [] direction = "Left" -> <<from[1] - 1, from[2]>>
    [] direction = "Right" -> <<from[1] + 1, from[2]>>

\* HashMap::insert on the canvas
insert(canvas, at, color) == (at :> color) @@ canvas

\* Option<i64>
None == [some |-> FALSE, value |-> 0]

Some(value) == [some |-> TRUE, value |-> value]

\* paint is entered: its locals, the first panel, and the first push_input
paint ==
  /\ pc = "idle"
  /\ lastOp = "new"
  /\ \E initial_color \in {0, 1} :
       /\ locals' = [position |-> <<0, 0>>, direction |-> "Up",
                     prev_output |-> None,
                     canvas |-> insert(<<>>, <<0, 0>>, initial_color),
                     strokes |-> <<>>]
       /\ inputs' = Append(inputs, initial_color)
       /\ pushed' = Append(pushed, initial_color)
  /\ pc' = "paint_loop"
  /\ caller' = "paint"
  /\ lastOp' = "paint"
  /\ UNCHANGED <<opcodes, pointer, relative_base, build, output, captured,
                 results, emitted, consumed, calls, capStart, lastAt,
                 panicMsg, amplifiers, last_output, intcodes, settings, ops>>

\* loop { match self.program.run() ...
paint_run ==
  /\ pc = "paint_loop"
  /\ pc' = "run"
  /\ calls' = calls + 1
  /\ lastOp' = "run"
  /\ UNCHANGED <<opcodes, pointer, inputs, relative_base, build, caller,
                 output, captured, results, emitted, pushed, consumed,
                 capStart, lastAt, panicMsg, amplifiers, last_output,
                 intcodes, settings, ops, locals>>

\* ProgramState::Output(value) with prev_output None: keep the value
paint_Output_first ==
  /\ pc = "idle"
  /\ caller = "paint"
  /\ state.tag = "Output"
  /\ ~locals.prev_output.some
  /\ locals' = [locals EXCEPT !.prev_output = Some(state.value)]
  /\ pc' = "paint_loop"
  /\ lastOp' = "paint"
  /\ UNCHANGED <<opcodes, pointer, inputs, relative_base, build, caller,
                 output, captured, results, emitted, pushed, consumed, calls,
                 capStart, lastAt, panicMsg, amplifiers, last_output,
                 intcodes, settings, ops>>

\* ProgramState::Output(value) with prev_output Some(color): paint, turn,
\* move, and push_input(value)
paint_Output_second ==
  /\ pc = "idle"
  /\ caller = "paint"
  /\ state.tag = "Output"
  /\ locals.prev_output.some
  /\ LET color == locals.prev_output.value
         value == state.value
         direction == turn(locals.direction, value = 0)
     IN /\ locals' = [position |-> next_position(direction, locals.position),
                      direction |-> direction,
                      prev_output |-> None,
                      canvas |-> insert(locals.canvas, locals.position,
                                        ToUsize(color)),
                      strokes |-> Append(locals.strokes,
                                         [position |-> locals.position,
                                          color |-> ToUsize(color)])]
        /\ inputs' = Append(inputs, value)
        /\ pushed' = Append(pushed, value)
  /\ pc' = "paint_loop"
  /\ lastOp' = "paint"
  /\ UNCHANGED <<opcodes, pointer, relative_base, build, caller, output,
                 captured, results, emitted, consumed, calls, capStart,
                 lastAt, panicMsg, amplifiers, last_output, intcodes,
                 settings, ops>>

\* ProgramState::Halt(Some(value)) => println!, break; paint returns canvas
paint_HaltSome ==
  /\ pc = "idle"
  /\ caller = "paint"
  /\ state.tag = "Halt"
  /\ state.some
  /\ pc' = "paint_done"
  /\ output' = Append(output, state.value)
  /\ lastOp' = "paint"
  /\ UNCHANGED <<opcodes, pointer, inputs, relative_base, build, caller,
                 captured, results, emitted, pushed, consumed, calls,
                 capStart, lastAt, panicMsg, amplifiers, last_output,
                 intcodes, settings, ops, locals>>

\* ProgramState::Halt(None) => break; paint returns canvas
paint_HaltNone ==
  /\ pc = "idle"
  /\ caller = "paint"
  /\ state.tag = "Halt"
  /\ ~state.some
  /\ pc' = "paint_done"
  /\ lastOp' = "paint"
  /\ UNCHANGED <<opcodes, pointer, inputs, relative_base, build, caller,
                 output, captured, results, emitted, pushed, consumed, calls,
                 capStart, lastAt, panicMsg, amplifiers, last_output,
                 intcodes, settings, ops, locals>>

\* robot programs.  Each reads the colour under the robot before it puts
\* out a (colour, turn) pair.
\* one pair, then Halt right after the turn
OnePairThenHalt == <<3, 50, 104, 1, 104, 0, 99>>

\* one pair, a jump that is not taken, then Halt
OnePairThenJump == <<3, 50, 104, 1, 104, 0, 1105, 0, 0, 99>>

\* paints white and turns right, then paints what it reads and turns left
TurnRightThenRead ==
  <<3, 50, 104, 1, 104, 1, 3, 51, 4, 51, 104, 0, 1106, 1, 0, 99>>

\* turns left four times round a square, painting each panel white, and
\* paints the first panel again with what it reads there
RoundTheSquare ==
  <<3, 50, 104, 1, 104, 0, 1001, 60, 1, 60, 1007, 60, 4, 61, 1005, 61, 0,
    3, 50, 4, 50, 104, 0, 1106, 1, 0, 99>>

PaintPrograms ==
  {OnePairThenHalt, OnePairThenJump, TurnRightThenRead, RoundTheSquare}

\* PainterRobot::new(Program::new(intcodes))
PaintInit ==
  \E program \in PaintPrograms :
    Fresh([opcodes |-> program, relative_base |-> 0])

PaintNext ==
  \/ paint
  \/ paint_run
  \/ paint_Output_first
  \/ paint_Output_second
  \/ paint_HaltSome
  \/ paint_HaltNone
  \/ run_Add
  \/ run_Input
  \/ run_Output
  \/ run_JumpIfTrue
  \/ run_JumpIfFalse
  \/ run_LessThan
  \/ run_Exit

PaintSpec == PaintInit /\ [][PaintNext]_vars

----------------------------------------------------------------------------

(* Switch::run and NAT: src/23-category-six/src/main.rs.  Its Program is a
   revision of the VM whose run() returns Wait when an Input instruction finds
   the queue empty, Output(value) for every Output instruction, and Halt at
   Exit. *)

\* the number of programs initialize_switch pushes, cut down from 50
NetSize == 2

\* NAT::new
NAT_new(capacity) ==
  [last_packet |-> [some |-> FALSE, value |-> <<0, 0>>],
   waiting |-> [n \in 1..capacity |-> FALSE]]

\* NAT::receive
receive(nat, x, y) == [nat EXCEPT !.last_packet = Some(<<x, y>>)]

\* NAT::waiting
waiting(nat, n) == [nat EXCEPT !.waiting[n + 1] = TRUE]

\* NAT::is_stalled
is_stalled(nat) ==
  Cardinality({n \in 1..Len(nat.waiting) : nat.waiting[n]}) = Len(nat.waiting)

\* NAT::ready
ready(nat, n) == [nat EXCEPT !.waiting[n + 1] = FALSE]

\* ProgramState::Wait
Wait == [tag |-> "Wait", some |-> FALSE, value |-> 0]

\* the Input arm of the revision: an empty queue suspends the program on the
\* Input instruction, and run() returns Wait
wait_Input ==
  /\ Arm("Input")
  /\ LET save_to == take_one_param(Fetched.ins)
     IN IF inputs = <<>>
          THEN /\ Return("Input", pointer, Wait)
               /\ UNCHANGED consumed
          ELSE /\ Store("Input", save_to, Head(inputs), Tail(inputs))
               /\ consumed' = consumed + 1
  /\ UNCHANGED emitted

\* the Output arm of the revision: run() returns Output(value) whatever the
\* next instruction is
wait_Output ==
  /\ Arm("Output")
  /\ LET value == value_at(Fetched.ins.mode_one, pointer + 1, opcodes, relative_base)
     IN /\ emitted' = Append(emitted, value)
        /\ Return("Output", pointer + jump_size("Output"), Output(value))
  /\ UNCHANGED consumed

\* initialize_switch, and the locals of Switch::run before its loop.  `last`
\* records what each program's last run() returned, `returned` the value
\* Switch::run returns.
switch_new ==
  /\ pc = "idle"
  /\ lastOp = "new"
  /\ \E part_one \in BOOLEAN :
       locals' = [programs |-> [n \in 1..NetSize |->
                                  Parked(opcodes, 0, <<n - 1, -1>>, 0,
                                         <<n - 1, -1>>, n - 1)],
                  outputs |-> [n \in 1..NetSize |-> <<>>],
                  inputs |-> [n \in 1..NetSize |-> <<>>],
                  nat |-> NAT_new(NetSize),
                  last_nat_send |-> None,
                  part_one |-> part_one,
                  index |-> 0,
                  last |-> [n \in 1..NetSize |-> "none"],
                  returned |-> 0]
  /\ pc' = "switch_for"
  /\ caller' = "switch"
  /\ lastOp' = "switch"
  /\ UNCHANGED <<opcodes, pointer, inputs, relative_base, build, output,
                 captured, results, emitted, pushed, consumed, calls,
                 capStart, lastAt, panicMsg, amplifiers, last_output,
                 intcodes, settings, ops>>

\* one pass of `for (index, program) in self.programs.iter_mut()`: the
\* program's buffer is drained into its input queue
switch_for ==
  /\ pc = "switch_for"
  /\ LET program == locals.programs[locals.index + 1]
         queued == locals.inputs[locals.index + 1]
     IN /\ opcodes' = program.opcodes
        /\ pointer' = program.pointer
        /\ relative_base' = program.relative_base
        /\ inputs' = program.inputs \o queued
        /\ pushed' = program.pushed \o queued
        /\ locals' = [locals EXCEPT !.inputs[locals.index + 1] = <<>>]
  /\ pc' = "switch_loop"
  /\ lastOp' = "switch"
  /\ UNCHANGED <<build, caller, output, captured, results, emitted, consumed,
                 calls, capStart, lastAt, panicMsg, amplifiers, last_output,
                 intcodes, settings, ops>>

\* loop { match program.run() ...
switch_call ==
  /\ pc = "switch_loop"
  /\ pc' = "run"
  /\ calls' = calls + 1
  /\ lastOp' = "run"
  /\ UNCHANGED <<opcodes, pointer, inputs, relative_base, build, caller,
                 output, captured, results, emitted, pushed, consumed,
                 capStart, lastAt, panicMsg, amplifiers, last_output,
                 intcodes, settings, ops, locals>>

\* ProgramState::Output(value): the first two values of a packet are kept,
\* the third sends it to the NAT (255) or to the receiver's buffer
switch_Output ==
  /\ pc = "idle"
  /\ caller = "switch"
  /\ state.tag = "Output"
  /\ LET index == locals.index
         value == state.value
         program_outputs == locals.outputs[index + 1]
         receiver_id == ToUsize(program_outputs[1])
         x == program_outputs[2]
         seen == [locals EXCEPT !.last[index + 1] = "Output"]
         popped == [seen EXCEPT !.outputs[index + 1] = <<>>]
     IN IF Len(program_outputs) < 2
          THEN /\ locals' = [seen EXCEPT !.outputs[index + 1] = Append(@, value)]
               /\ pc' = "switch_loop"
               /\ UNCHANGED panicMsg
          ELSE IF receiver_id = 255
            THEN IF locals.part_one
                   THEN /\ locals' = [popped EXCEPT !.returned = value]
                        /\ pc' = "switch_done"
                        /\ UNCHANGED panicMsg
                   ELSE /\ locals' = [popped EXCEPT !.nat = receive(@, x, value)]
                        /\ pc' = "switch_loop"
                        /\ UNCHANGED panicMsg
            ELSE IF receiver_id >= NetSize
              THEN /\ locals' = popped
                   /\ pc' = "panic"
                   /\ panicMsg' = "unwrap on None"
              ELSE /\ locals' = [popped EXCEPT
                                   !.inputs[receiver_id + 1] = @ \o <<x, value>>,
                                   !.nat = ready(@, receiver_id)]
                   /\ pc' = "switch_loop"
                   /\ UNCHANGED panicMsg
  /\ lastOp' = "switch"
  /\ UNCHANGED <<opcodes, pointer, inputs, relative_base, build, caller,
                 output, captured, results, emitted, pushed, consumed, calls,
                 capStart, lastAt, amplifiers, last_output, intcodes,
                 settings, ops>>

\* ProgramState::Wait: nat.waiting(index); a stalled network gets the NAT's
\* last packet sent to program 0, and Switch::run returns its y when it is
\* the y sent last; then break, on to the next program
switch_Wait ==
  /\ pc = "idle"
  /\ caller = "switch"
  /\ state.tag = "Wait"
  /\ LET index == locals.index
         nat == waiting(locals.nat, index)
         packet == nat.last_packet
         sends == is_stalled(nat) /\ packet.some
         y == packet.value[2]
         seen == [locals EXCEPT
                    !.last[index + 1] = "Wait",
                    !.programs[index + 1] =
                       Parked(opcodes, pointer, inputs, relative_base,
                              pushed, index)]
     IN IF ~sends
          THEN /\ locals' = [seen EXCEPT !.nat = nat,
                                         !.index = (index + 1) % NetSize]
               /\ pc' = "switch_for"
          ELSE IF locals.last_nat_send.some /\ locals.last_nat_send.value = y
            THEN /\ locals' = [seen EXCEPT !.nat = nat,
                                           !.inputs[1] = @ \o packet.value,
                                           !.returned = y]
                 /\ pc' = "switch_done"
            ELSE /\ locals' = [seen EXCEPT
                                 !.nat = ready([nat EXCEPT !.last_packet =
                                                  NAT_new(NetSize).last_packet],
                                               0),
                                 !.inputs[1] = @ \o packet.value,
                                 !.last_nat_send = Some(y),
                                 !.index = (index + 1) % NetSize]
                 /\ pc' = "switch_for"
  /\ lastOp' = "switch"
  /\ UNCHANGED <<opcodes, pointer, inputs, relative_base, build, caller,
                 output, captured, results, emitted, pushed, consumed, calls,
                 capStart, lastAt, panicMsg, amplifiers, last_output,
                 intcodes, settings, ops>>

\* ProgramState::Halt => return -1
switch_Halt ==
  /\ pc = "idle"
  /\ caller = "switch"
  /\ state.tag = "Halt"
  /\ locals' = [locals EXCEPT !.last[locals.index + 1] = "Halt",
                              !.returned = -1]
  /\ pc' = "switch_done"
  /\ lastOp' = "switch"
  /\ UNCHANGED <<opcodes, pointer, inputs, relative_base, build, caller,
                 output, captured, results, emitted, pushed, consumed, calls,
                 capStart, lastAt, panicMsg, amplifiers, last_output,
                 intcodes, settings, ops>>

\* network programs; each reads its address and the -1 that follows it.
\* The first sends the packet (5, 6) to itself, reads a packet and halts; the
\* second sends (1, 2) to the NAT, reads a packet, and starts again; the
\* third sends (5, 6) to the other program, reads a packet and halts.
SwitchPrograms ==
  {<<3, 20, 3, 21, 4, 20, 104, 5, 104, 6, 3, 21, 3, 22, 99>>,
   <<3, 20, 3, 21, 104, 255, 104, 1, 104, 2, 3, 21, 3, 22, 1105, 1, 4>>,
   <<3, 20, 3, 21, 1002, 20, -1, 23, 1001, 23, 1, 23, 4, 23, 104, 5, 104, 6,
     3, 21, 3, 22, 99>>}

\* Program::new(intcodes.clone())
SwitchInit ==
  \E program \in SwitchPrograms :
    Fresh([opcodes |-> program, relative_base |-> 0])

SwitchNext ==
  \/ switch_new
  \/ switch_for
  \/ switch_call
  \/ switch_Output
  \/ switch_Wait
  \/ switch_Halt
  \/ wait_Input
  \/ wait_Output
  \/ run_Add
  \/ run_Mul
  \/ run_JumpIfTrue
  \/ run_Exit

SwitchSpec == SwitchInit /\ [][SwitchNext]_vars

----------------------------------------------------------------------------

(* Vocabulary of the properties *)

\* the result of the run() call that returns in this step
Returned == results'[Len(results')]

\* a run() call returns in this step
Returns == Len(results') = Len(results) + 1

\* cell `address` holds a Halt instruction: its low two decimal digits are 99
IsHaltCell(mem, address) ==
  /\ address < Len(mem)
  /\ mem[address + 1] >= 0
  /\ mem[address + 1] % 100 = 99

\* the values the results carry, in order
RECURSIVE Values(_)
Values(rs) ==
  IF rs = <<>> THEN <<>>
  ELSE IF Head(rs).some THEN <<Head(rs).value>> \o Values(Tail(rs))
  ELSE Values(Tail(rs))

\* some run() call has returned Halt
Halted == \E i \in 1..Len(results) : results[i].tag = "Halt"

\* the number of run() calls it took to reach the first Halt
FirstHalt == CHOOSE i \in 1..Len(results) :
               /\ results[i].tag = "Halt"
               /\ \A j \in 1..(i - 1) : results[j].tag = "Output"

----------------------------------------------------------------------------
(* C1 as claimed: whenever run() executes an Output instruction the pointer *)
(* advances by 2, nothing else of the VM changes, and run() returns         *)
(* Halt(Some(value)) if the cell at the new pointer is a Halt instruction   *)
(* and Output(value) otherwise, value being the resolved operand of the     *)
(* Output instruction.                                                      *)
C1_OutputLookAhead ==
  [][ Arm("Output")
      => ( /\ pointer' = pointer + 2
           /\ UNCHANGED <<opcodes, relative_base, inputs>>
           /\ Returns
           /\ LET value == value_at(Fetched.ins.mode_one, pointer + 1,
                                    opcodes, relative_base)
              IN IF IsHaltCell(opcodes, pointer + 2)
                   THEN Returned = HaltSome(value)
                   ELSE Returned = Output(value) ) ]_vars

\* Where the look-ahead finds a cell that decodes, C1 holds as claimed: the
\* executions that break it are those in which the look-ahead panics.
OutputLookAheadWhenDecodable ==
  [][ ( /\ Arm("Output")
        /\ next(opcodes, pointer + 2).some
        /\ next(opcodes, pointer + 2).ins.panic = "none" )
      => ( /\ pointer' = pointer + 2
           /\ UNCHANGED <<opcodes, relative_base, inputs>>
           /\ Returns
           /\ LET value == value_at(Fetched.ins.mode_one, pointer + 1,
                                    opcodes, relative_base)
              IN IF IsHaltCell(opcodes, pointer + 2)
                   THEN Returned = HaltSome(value)
                   ELSE Returned = Output(value) ) ]_vars

\* no pass of run's loop is cut short by a bound of the model
NoPassBlocked == pc = "run" => ENABLED Next

(* C2: while the process is alive the values carried by the results of the  *)
(* run() calls so far are exactly the values of the Output instructions     *)
(* executed so far, in order; and a first Halt result is reached with at    *)
(* most k + 1 run() calls, k being the number of Output instructions        *)
(* executed.                                                                *)
C2_OutputsInOrder ==
  /\ pc # "panic" => Values(results) = emitted
  /\ Halted => FirstHalt <= Len(emitted) + 1

\* two outputs, the second folded into the Halt result: k = 2 calls
C2_Witness ==
  /\ pc = "idle"
  /\ Len(emitted) = 2
  /\ emitted[1] # emitted[2]
  /\ Halted
  /\ FirstHalt = 2
  /\ results[2].some

(* C3: once a run() call has returned Halt, no instruction but the Halt the *)
(* pointer rests on is looked at again: memory, pointer and relative base   *)
(* never change, the input queue changes only by push_input, no value is    *)
(* consumed or output, the process does not panic, and every later run()    *)
(* call returns Halt(None).                                                 *)
C3_HaltIsTerminal ==
  [][ Halted
      => ( /\ UNCHANGED <<opcodes, pointer, relative_base, emitted, consumed>>
           /\ pc' # "panic"
           /\ lastOp' \in {lastOp, "run", "Exit", "None", "captured"}
           /\ IF pushed' # pushed
                THEN inputs' = Append(inputs, pushed'[Len(pushed')])
                ELSE inputs' = inputs
           /\ Returns => Returned = HaltNone ) ]_vars

\* a halted VM was given an input and run again twice
C3_Witness ==
  /\ pc = "idle"
  /\ Len(results) = 3
  /\ results[1] = HaltSome(1)
  /\ results[2] = HaltNone
  /\ results[3] = HaltNone
  /\ Len(inputs) = 1

(* C4: when run_capturing_output returns, the run() calls it made end with  *)
(* the first Halt result, every result before it is an Output, and the      *)
(* vector returned holds exactly the values of those results in order       *)
(* (every Output(v) and a final Halt(Some(v))); between those run() calls   *)
(* the loop itself changes nothing of the VM.                               *)
C4_CaptureCollectsRuns ==
  /\ [] ( lastOp = "captured"
          => LET rs == SubSeq(results, capStart + 1, Len(results))
             IN /\ Len(rs) >= 1
                /\ rs[Len(rs)].tag = "Halt"
                /\ \A i \in 1..(Len(rs) - 1) : rs[i].tag = "Output"
                /\ captured = Values(rs) )
  /\ [][ pc = "capture" => UNCHANGED vmVars ]_vars

\* a capture that collected an Output and then a terminal Halt(Some)
C4_Witness ==
  /\ lastOp = "captured"
  /\ capStart = 0
  /\ Len(results) = 2
  /\ results[2].tag = "Halt"
  /\ captured = <<5, 6>>

(* C5: the input queue always holds exactly the pushed values not yet       *)
(* consumed, in push order; the i-th Input instruction executed removes the *)
(* front of the queue, which is the i-th value ever pushed, and that is the *)
(* value found at its write-target afterwards.                              *)
C5_InputFifo ==
  /\ [] ( inputs = SubSeq(pushed, consumed + 1, Len(pushed)) )
  /\ [][ ( Arm("Input") /\ inputs # <<>> )
         => ( /\ consumed' = consumed + 1
              /\ inputs' = Tail(inputs)
              /\ pc' # "panic"
                   => read(opcodes', take_one_param(Fetched.ins))
                        = pushed[consumed + 1] ) ]_vars

\* two different values were pushed and both consumed, in push order
C5_Witness ==
  /\ pc = "idle"
  /\ consumed = 2
  /\ pushed[1] # pushed[2]
  /\ opcodes[1] = pushed[1]
  /\ opcodes[2] = pushed[2]
  /\ emitted = <<pushed[1], pushed[2]>>

(* C6: an Input instruction reached with an empty queue panics: run() does  *)
(* not return a result, and memory, pointer and relative base are as they   *)
(* were when the instruction was fetched.                                   *)
C6_InputStarvation ==
  [][ ( Arm("Input") /\ inputs = <<>> )
      => ( /\ pc' = "panic"
           /\ results' = results
           /\ UNCHANGED <<opcodes, pointer, relative_base>> ) ]_vars

\* the starvation panic, after an earlier Input instruction was served
C6_Witness ==
  /\ pc = "panic"
  /\ panicMsg = "No input available"
  /\ lastOp = "Input"
  /\ consumed = 1
  /\ inputs = <<>>

----------------------------------------------------------------------------
(* Which parameters an instruction resolves *)

\* the parameter at `pos` resolves, in `mode`, to a negative address
NegativeAddress(mode, pos) ==
  \/ mode = "Position" /\ read(opcodes, pos) < 0
  \/ mode = "Relative" /\ ToI64(relative_base) + read(opcodes, pos) < 0

\* the instruction about to execute resolves a negative address
ResolvesNegativeAddress ==
  LET ins == Fetched.ins
  IN /\ Fetched.some
     /\ ins.panic = "none"
     /\ \/ /\ ins.instruction # "Exit"
           /\ NegativeAddress(ins.mode_one, pointer + 1)
        \/ /\ ins.instruction \in {"Add", "Mul", "LessThan", "Equal",
                                   "JumpIfTrue", "JumpIfFalse"}
           /\ NegativeAddress(ins.mode_two, pointer + 2)
        \/ /\ ins.instruction \in {"Add", "Mul", "LessThan", "Equal"}
           /\ NegativeAddress(ins.mode_three, pointer + 3)

\* the instruction about to execute has its write-target in Immediate mode
ImmediateWriteTarget ==
  LET ins == Fetched.ins
  IN /\ Fetched.some
     /\ ins.panic = "none"
     /\ \/ /\ ins.instruction \in {"Add", "Mul", "LessThan", "Equal"}
           /\ ins.mode_three = "Immediate"
        \/ /\ ins.instruction = "Input"
           /\ ins.mode_one = "Immediate"

\* the cell holds no recognized opcode in its low two decimal digits
UnrecognizedOpcode(cell) ==
  \/ cell < 0
  \/ (cell % 100) \notin {1, 2, 3, 4, 5, 6, 7, 8, 9, 99}

(* C8 as claimed: an instruction that resolves a negative address, for a    *)
(* read or for a write-target, makes run() abort without modifying memory.  *)
C8_NegativeAddressFatal ==
  [][ ( pc = "run" /\ ResolvesNegativeAddress )
      => ( pc' = "panic" /\ opcodes' = opcodes ) ]_vars

(* C9 as claimed: an instruction whose write-target is in Immediate mode    *)
(* makes run() abort and no memory cell is written.                         *)
C9_ImmediateWriteFatal ==
  [][ ( pc = "run" /\ ImmediateWriteTarget )
      => ( pc' = "panic" /\ opcodes' = opcodes ) ]_vars

(* C10: whenever the cell run() fetches at the pointer has no recognized    *)
(* opcode in its low two decimal digits (negative cells and 0 included),    *)
(* run() panics with memory, pointer, relative base and input queue as they *)
(* were; the same holds for the cell the look-ahead after an Output         *)
(* instruction fetches at the advanced pointer.                             *)
C10_UnknownOpcodeFatal ==
  /\ [][ ( /\ pc = "run"
           /\ pointer < Len(opcodes)
           /\ UnrecognizedOpcode(opcodes[pointer + 1]) )
         => ( /\ pc' = "panic"
              /\ panicMsg' = "Unknown opcode"
              /\ UNCHANGED <<opcodes, pointer, relative_base, inputs, results>> )
     ]_vars
  /\ [][ ( /\ Arm("Output")
           /\ pointer + 2 < Len(opcodes)
           /\ UnrecognizedOpcode(opcodes[pointer + 3]) )
         => ( /\ pc' = "panic"
              /\ panicMsg' = "Unknown opcode"
              /\ pointer' = pointer + 2
              /\ UNCHANGED <<opcodes, relative_base, inputs, results>> )
     ]_vars

\* a negative cell whose last two digits read 01 was fetched and refused
C10_Witness ==
  /\ pc = "panic"
  /\ panicMsg = "Unknown opcode"
  /\ lastOp = "decode"
  /\ opcodes[pointer + 1] = -101
  /\ results = <<>>

----------------------------------------------------------------------------
(* C11 *)

\* the mode a decimal digit stands for
ModeOfDigit(digit) ==
  CASE digit = 0 -> "Position"
    [] digit = 1 -> "Immediate"
    [] digit = 2 -> "Relative"
    [] OTHER -> "Invalid"

\* the decimal digit of cell at the place of weight (100, 1000, 10000)
DigitAt(cell, weight) == (cell \div weight) % 10

\* the decoder gives the instruction and the three modes the digits name
SplitsByDigits(cell) ==
  LET decoded == from_intcode(cell) IN
    /\ decoded.instruction = from_opcode(cell % 100)
    /\ decoded.mode_one = ModeOfDigit(DigitAt(cell, 100))
    /\ decoded.mode_two = ModeOfDigit(DigitAt(cell, 1000))
    /\ decoded.mode_three = ModeOfDigit(DigitAt(cell, 10000))

\* the cell the pass in progress decodes
AtCell == pc = "run" /\ pointer < Len(opcodes)

\* C11: whenever run() decodes a non-negative cell, the instruction is the
\* one its low two decimal digits name, and the modes of parameters 1, 2
\* and 3 are the ones its hundreds, thousands and ten-thousands digits name.
C11_DecoderSplitsDigits ==
  (AtCell /\ opcodes[pointer + 1] >= 0) => SplitsByDigits(opcodes[pointer + 1])

\* the same, for the cells of at most five digits (holds)
DecoderSplitsFiveDigits ==
  (AtCell /\ opcodes[pointer + 1] >= 0 /\ opcodes[pointer + 1] < 100000)
    => SplitsByDigits(opcodes[pointer + 1])

\* the decodings test_decode_instruction and the module's examples give
DecoderExamples ==
  /\ from_intcode(1002) =
       [instruction |-> "Mul", mode_one |-> "Position",
        mode_two |-> "Immediate", mode_three |-> "Position", panic |-> "none"]
  /\ from_intcode(11102) =
       [instruction |-> "Mul", mode_one |-> "Immediate",
        mode_two |-> "Immediate", mode_three |-> "Immediate", panic |-> "none"]

----------------------------------------------------------------------------
(* C12 *)

\* the decoded instruction under the pointer
Ins == Fetched.ins

\* the operand whose parameter cell is at p is read from an address at or
\* beyond the end of the memory
Beyond(mode, p) == position(mode, p, opcodes, relative_base) >= Len(opcodes)

\* C12: a read of an address at or beyond the memory length yields 0 (the
\* Output emits 0, the Adjust-Relative-Base adds 0, the jumps test 0 and
\* jump to 0, Add/Multiply/Less-Than/Equals compute with 0), and an
\* instruction that only reads leaves the length and the contents of the
\* memory as they were.
C12_ReadBeyondEnd ==
  [][ /\ (Arm("Output") /\ Beyond(Ins.mode_one, pointer + 1))
          => (emitted' = Append(emitted, 0) /\ opcodes' = opcodes)
      /\ (Arm("SetRelativeBase") /\ Beyond(Ins.mode_one, pointer + 1))
          => (relative_base' = relative_base /\ opcodes' = opcodes)
      /\ (Arm("JumpIfTrue") /\ Beyond(Ins.mode_one, pointer + 1))
          => (pointer' = pointer + 3 /\ opcodes' = opcodes)
      /\ (Arm("JumpIfFalse") /\ Beyond(Ins.mode_one, pointer + 1)
            /\ Beyond(Ins.mode_two, pointer + 2))
          => (pointer' = 0 /\ opcodes' = opcodes)
      /\ (Arm("JumpIfTrue") \/ Arm("JumpIfFalse") \/ Arm("Output")
            \/ Arm("SetRelativeBase") \/ Arm("Exit"))
          => opcodes' = opcodes
      /\ \A op \in {"Add", "Mul", "LessThan", "Equal"} :
           (/\ Arm(op)
            /\ Beyond(Ins.mode_one, pointer + 1)
            /\ Beyond(Ins.mode_two, pointer + 2)
            /\ pc' = "run")
           => opcodes'[take_three_params(Ins).address + 1]
                = (IF op = "Equal" THEN 1 ELSE 0)
    ]_vars

\* each kind of read of a missing cell has happened: an Output, an
\* Adjust-Relative-Base and an Equals have read beyond the end and the
\* memory is as long as it was
C12_Witness ==
  /\ opcodes = <<9, 50, 204, 60, 1005, 70, 0, 1006, 80, 11, 0, 99>>
  /\ lastOp = "JumpIfFalse"
  /\ pointer = 11
  /\ emitted = <<0>>
  /\ relative_base = 0

----------------------------------------------------------------------------
(* C13 *)

\* the instruction under the pointer is one that writes
WriteArm == \E op \in {"Add", "Mul", "Input", "LessThan", "Equal"} : Arm(op)

\* the address the instruction under the pointer writes to
WriteAddress ==
  IF Ins.instruction = "Input"
    THEN take_one_param(Ins)
    ELSE take_three_params(Ins).address

\* the value the instruction under the pointer writes
WriteValue ==
  LET p == take_three_params(Ins) IN
    CASE Ins.instruction = "Add" -> p.one + p.two
      [] Ins.instruction = "Mul" -> p.one * p.two
      [] Ins.instruction = "LessThan" -> IF p.one < p.two THEN 1 ELSE 0
      [] Ins.instruction = "Equal" -> IF p.one = p.two THEN 1 ELSE 0
      [] Ins.instruction = "Input" -> Head(inputs)

\* after is before with value written at address, as C13 describes it
WrittenAt(before, after, address, value) ==
  LET L == Len(before) IN
    /\ Len(after) = (IF address >= L THEN address + 1 ELSE L)
    /\ after[address + 1] = value
    /\ \A a \in 0..(Len(after) - 1) :
         a # address => after[a + 1] = (IF a < L THEN before[a + 1] ELSE 0)

\* C13: a write of v to an address a at or beyond the length L leaves a
\* memory of length a+1 with v at a, 0 in every cell of [L, a) and the
\* cells below L as they were; a write to an address below L changes only
\* that cell and not the length.
C13_WriteGrowsMemory ==
  [][ (WriteArm /\ pc' = "run")
        => WrittenAt(opcodes, opcodes', WriteAddress, WriteValue) ]_vars

\* [1101,1,1,12,4,12] has written 2 at address 12 of a memory of length 6
C13_Witness ==
  /\ opcodes = <<1101, 1, 1, 12, 4, 12, 0, 0, 0, 0, 0, 0, 2>>
  /\ lastOp = "Add"

\* a write below the length has happened: [1002,4,3,4,33] holds 99 in cell 4
C13_WitnessInside ==
  /\ opcodes = <<1002, 4, 3, 4, 99>>
  /\ lastOp = "Mul"

----------------------------------------------------------------------------
(* C14 *)

\* the content of the address a >= 0 (0 beyond the end, C12)
Cell(a) == IF a < Len(opcodes) THEN opcodes[a + 1] ELSE 0

\* the relative base as the signed number the instructions add to
Base == ToI64(relative_base)

\* the address a Position or Relative parameter at p names
OperandAddress(mode, p) ==
  IF mode = "Position" THEN Cell(p) ELSE Base + Cell(p)

\* the parameter names something to read: a literal, or an address of the
\* memory (addresses are non-negative)
Readable(mode, p) == mode = "Immediate" \/ OperandAddress(mode, p) >= 0

\* the parameter names a cell to write to
Writable(mode, p) == mode # "Immediate" /\ OperandAddress(mode, p) >= 0

\* what a read of the parameter at p resolves to
ReadOperand(mode, p) ==
  IF mode = "Immediate" THEN Cell(p) ELSE Cell(OperandAddress(mode, p))

\* what a three-parameter instruction computes from its two operands
Computed(op, a, b) ==
  CASE op = "Add" -> a + b
    [] op = "Mul" -> a * b
    [] op = "LessThan" -> IF a < b THEN 1 ELSE 0
    [] op = "Equal" -> IF a = b THEN 1 ELSE 0

ThreeParamOps == {"Add", "Mul", "LessThan", "Equal"}

\* C14: every instruction works on its operands as resolved by mode: a
\* Position parameter at p names the address mem[p], a Relative one the
\* address (current relative base) + mem[p]; a read gives the content of that
\* address, or mem[p] itself in Immediate mode, and a write goes to that
\* address.  Output emits the operand so read, Adjust-Relative-Base adds it,
\* Input stores at the address so named, and the three-parameter
\* instructions store there what they compute from the two operands so read.
C14_OperandResolution ==
  [][ /\ (Arm("Output") /\ Readable(Ins.mode_one, pointer + 1))
          => emitted' = Append(emitted, ReadOperand(Ins.mode_one, pointer + 1))
      /\ (Arm("SetRelativeBase") /\ Readable(Ins.mode_one, pointer + 1)
            /\ pc' = "run")
          => ToI64(relative_base')
               = Base + ReadOperand(Ins.mode_one, pointer + 1)
      /\ (Arm("Input") /\ Writable(Ins.mode_one, pointer + 1) /\ pc' = "run")
          => opcodes'[OperandAddress(Ins.mode_one, pointer + 1) + 1]
               = Head(inputs)
      /\ \A op \in ThreeParamOps :
           (/\ Arm(op)
            /\ Readable(Ins.mode_one, pointer + 1)
            /\ Readable(Ins.mode_two, pointer + 2)
            /\ Writable(Ins.mode_three, pointer + 3)
            /\ pc' = "run")
           => opcodes'[OperandAddress(Ins.mode_three, pointer + 3) + 1]
                = Computed(op, ReadOperand(Ins.mode_one, pointer + 1),
                               ReadOperand(Ins.mode_two, pointer + 2))
    ]_vars

\* [109,2,21101,3,4,7,204,7,99] has moved the base from 0 to 2, written
\* 3+4 through the Relative target 7 (address 9) and read it back through a
\* Relative operand
C14_Witness ==
  /\ opcodes = <<109, 2, 21101, 3, 4, 7, 204, 7, 99, 7>>
  /\ relative_base = 2
  /\ results = <<HaltSome(7)>>

----------------------------------------------------------------------------
(* C15 *)

\* the two programs of test_change_relative_base, as the test sets them up
BaseTestMemory == <<109, 19, 99>>
OutputTestMemory == PresetMemory(<<109, 19, 204, -34, 99>>, 1985, 1337)

\* C15: Adjust-Relative-Base adds its operand, negative or not, to the
\* relative base and moves the pointer 2 forward; started with relative base
\* 2000, [109,19,99] has the base at 2019 once run() has returned, and
\* [109,19,204,-34,99] with 1337 in cell 1985 returns Halt(Some(1337)) from
\* its first run().
C15_AdjustRelativeBase ==
  /\ [][ (Arm("SetRelativeBase") /\ Readable(Ins.mode_one, pointer + 1))
           => /\ pc' = "run"
              /\ ToI64(relative_base')
                   = Base + ReadOperand(Ins.mode_one, pointer + 1)
              /\ pointer' = pointer + 2 ]_vars
  /\ []((opcodes = BaseTestMemory /\ Len(results) >= 1)
          => relative_base = 2019)
  /\ []((opcodes = OutputTestMemory /\ Len(results) >= 1)
          => results[1] = HaltSome(1337))

\* the second program of the test has returned from its first run()
C15_Witness ==
  /\ opcodes = OutputTestMemory
  /\ relative_base = 2019
  /\ results = <<HaltSome(1337)>>

\* the first program of the test has returned, and so has a program that
\* moved the base below zero
C15_WitnessBase ==
  /\ opcodes = BaseTestMemory
  /\ relative_base = 2019
  /\ results = <<HaltNone>>

C15_WitnessNegative ==
  /\ lastOp = "SetRelativeBase"
  /\ Base = -3

----------------------------------------------------------------------------
(* C16 *)

\* C16: only the Adjust-Relative-Base instruction changes the relative base:
\* push_input(), every other instruction and every return from run() leave
\* it as it was.
C16_BaseChangedOnlyByAdjust ==
  [][ relative_base' # relative_base => Arm("SetRelativeBase") ]_vars

\* [109,7,203,0,4,7,99] has moved the base to 7, then taken an input,
\* emitted it, returned and halted, and the base is still 7
C16_Witness ==
  /\ relative_base = 7
  /\ consumed = 1
  /\ Len(emitted) = 1
  /\ lastOp = "Exit"

----------------------------------------------------------------------------
(* C17 *)

\* the fixed size of the non-jump instructions the claim lists
FixedSize(op) ==
  IF op \in {"Add", "Mul", "LessThan", "Equal"} THEN 4 ELSE 2

\* C17: a step that executes Add, Multiply, Less-Than or Equals moves the
\* pointer exactly 4 forward and one that executes Input, Output or
\* Adjust-Relative-Base exactly 2; a step that executes a jump leaves the
\* pointer at the jump target itself or at the old pointer plus 3.
C17_PointerAdvance ==
  [][ /\ \A op \in {"Add", "Mul", "LessThan", "Equal", "Input", "Output",
                     "SetRelativeBase"} :
           (Arm(op) /\ pc' # "panic") => pointer' = pointer + FixedSize(op)
      /\ \A op \in {"JumpIfTrue", "JumpIfFalse"} :
           Arm(op) =>
             pointer' \in {ToUsize(take_two_params(Ins).two), pointer + 3}
    ]_vars

\* [1105,0,0,1106,1,0,1105,1,9] has passed two jumps not taken (pointer 3,
\* then 6) and taken the third to 9
C17_Witness ==
  /\ opcodes = <<1105, 0, 0, 1106, 1, 0, 1105, 1, 9>>
  /\ lastOp = "JumpIfTrue"
  /\ lastAt = 6
  /\ pointer = 9

----------------------------------------------------------------------------
(* C18 *)

\* where the jump under the pointer leaves the pointer when it is taken
\* exactly if `taken`: at its second operand (as the unsigned word the
\* pointer is), or 3 further
JumpsWhen(taken) ==
  pointer' = IF taken
               THEN ToUsize(ReadOperand(Ins.mode_two, pointer + 2))
               ELSE pointer + 3

\* C18: Jump-If-True puts the pointer at its second operand exactly when its
\* first operand is not 0, Jump-If-False exactly when it is 0, and otherwise
\* the pointer moves 3 forward; neither changes the memory, the relative base
\* or the input queue.
C18_Jumps ==
  [][ /\ (/\ Arm("JumpIfTrue")
          /\ Readable(Ins.mode_one, pointer + 1)
          /\ Readable(Ins.mode_two, pointer + 2))
          => JumpsWhen(ReadOperand(Ins.mode_one, pointer + 1) # 0)
      /\ (/\ Arm("JumpIfFalse")
          /\ Readable(Ins.mode_one, pointer + 1)
          /\ Readable(Ins.mode_two, pointer + 2))
          => JumpsWhen(ReadOperand(Ins.mode_one, pointer + 1) = 0)
      /\ (Arm("JumpIfTrue") \/ Arm("JumpIfFalse"))
          => (pc' = "run" /\ UNCHANGED <<opcodes, relative_base, inputs>>)
    ]_vars

\* [5,7,8,6,9,10,99,0,6,0,6] has passed its Jump-If-True (operand 0) and
\* taken its Jump-If-False (operand 0) to cell 6
C18_Witness ==
  /\ opcodes = <<5, 7, 8, 6, 9, 10, 99, 0, 6, 0, 6>>
  /\ lastOp = "JumpIfFalse"
  /\ lastAt = 3
  /\ pointer = 6

\* a Jump-If-True has been taken and a Jump-If-False passed
C18_WitnessTaken ==
  /\ opcodes = <<5, 1, 4, 99, 3>>
  /\ lastOp = "JumpIfTrue"
  /\ pointer = 3

C18_WitnessPassed ==
  /\ opcodes = <<1105, 0, 0, 1106, 1, 0, 1105, 1, 9>>
  /\ lastOp = "JumpIfFalse"
  /\ pointer = 6

----------------------------------------------------------------------------
(* C19 *)

\* v is a value of the signed word of the cells
InWord(v) == v >= -(UsizeModulus \div 2) /\ v < UsizeModulus \div 2

\* the instruction under the pointer is `op` with two operands to read and
\* a cell to write to, and what it computes is a value of the word
Computes(op) ==
  /\ Arm(op)
  /\ Readable(Ins.mode_one, pointer + 1)
  /\ Readable(Ins.mode_two, pointer + 2)
  /\ Writable(Ins.mode_three, pointer + 3)
  /\ InWord(Computed(op, ReadOperand(Ins.mode_one, pointer + 1),
                         ReadOperand(Ins.mode_two, pointer + 2)))

\* the step stores value in the cell the third parameter names, changes no
\* other cell the memory had, and moves the pointer 4 forward
StoresOnly(value) ==
  LET target == OperandAddress(Ins.mode_three, pointer + 3) IN
    /\ pc' = "run"
    /\ Len(opcodes') >= Len(opcodes)
    /\ opcodes'[target + 1] = value
    /\ \A a \in 0..(Len(opcodes) - 1) :
         a # target => opcodes'[a + 1] = opcodes[a + 1]
    /\ pointer' = pointer + 4

\* C19: Add stores the sum and Multiply the product of its two operands in
\* the cell its third parameter names, changes no other cell the memory had,
\* and moves the pointer 4 forward.
C19_AddMultiply ==
  [][ /\ Computes("Add")
          => StoresOnly(ReadOperand(Ins.mode_one, pointer + 1)
                          + ReadOperand(Ins.mode_two, pointer + 2))
      /\ Computes("Mul")
          => StoresOnly(ReadOperand(Ins.mode_one, pointer + 1)
                          * ReadOperand(Ins.mode_two, pointer + 2))
    ]_vars

\* [1002,4,3,4,33] has multiplied cell 4 (33) by 3 into cell 4
C19_Witness ==
  /\ opcodes = <<1002, 4, 3, 4, 99>>
  /\ lastOp = "Mul"
  /\ lastAt = 0
  /\ pointer = 4

\* [1,50,60,0,4,0,99] has added two missing cells into cell 0
C19_WitnessAdd ==
  /\ opcodes = <<0, 50, 60, 0, 4, 0, 99>>
  /\ lastOp = "Add"
  /\ pointer = 4

----------------------------------------------------------------------------
(* C20 *)

\* the instructions of the two comparison programs of the day-5 tests; the
\* programs overwrite only cell 9, behind them
EqualsEightCode == <<3, 9, 8, 9, 10, 9, 4, 9, 99>>
LessThanEightCode == <<3, 9, 7, 9, 10, 9, 4, 9, 99>>

\* the memory holds the program whose nine instruction cells are `code`,
\* and its first run() has returned
FirstRunOf(code) ==
  /\ Len(opcodes) = 11
  /\ SubSeq(opcodes, 1, 9) = code
  /\ Len(results) >= 1

\* the step stores value in the cell the third parameter names
StoresAtTarget(value) ==
  /\ pc' = "run"
  /\ opcodes'[OperandAddress(Ins.mode_three, pointer + 3) + 1] = value

\* C20: Less-Than stores 1 when its first operand is below the second and 0
\* otherwise, Equals stores 1 when the two are equal and 0 otherwise; and so
\* the first run() of [3,9,8,9,10,9,4,9,99,-1,8] returns Halt(Some(1)) when
\* the input is 8 and Halt(Some(0)) when it is not, and the first run() of
\* [3,9,7,9,10,9,4,9,99,-1,8] returns Halt(Some(1)) when the input is below
\* 8 and Halt(Some(0)) when it is not.
C20_Comparisons ==
  /\ [][ /\ Computes("LessThan")
             => StoresAtTarget(IF ReadOperand(Ins.mode_one, pointer + 1)
                                    < ReadOperand(Ins.mode_two, pointer + 2)
                                 THEN 1 ELSE 0)
         /\ Computes("Equal")
             => StoresAtTarget(IF ReadOperand(Ins.mode_one, pointer + 1)
                                    = ReadOperand(Ins.mode_two, pointer + 2)
                                 THEN 1 ELSE 0) ]_vars
  /\ [](FirstRunOf(EqualsEightCode)
          => results[1] = HaltSome(IF pushed[1] = 8 THEN 1 ELSE 0))
  /\ [](FirstRunOf(LessThanEightCode)
          => results[1] = HaltSome(IF pushed[1] < 8 THEN 1 ELSE 0))

\* the Less-Than program has run on the input 7
C20_Witness ==
  /\ FirstRunOf(LessThanEightCode)
  /\ pushed[1] = 7
  /\ results[1] = HaltSome(1)

\* the other cases of the two programs: the inputs 8 and 9
C20_WitnessLessThanNot ==
  /\ FirstRunOf(LessThanEightCode)
  /\ pushed[1] = 9
  /\ results[1] = HaltSome(0)

C20_WitnessEquals ==
  /\ FirstRunOf(EqualsEightCode)
  /\ pushed[1] = 8
  /\ results[1] = HaltSome(1)

C20_WitnessEqualsNot ==
  /\ FirstRunOf(EqualsEightCode)
  /\ pushed[1] = 9
  /\ results[1] = HaltSome(0)

----------------------------------------------------------------------------
(* C21 *)

\* the memory is that of test_program, [1002,4,3,4,33], whatever cell 4 holds
\* by now
TestProgram == Len(opcodes) = 5 /\ SubSeq(opcodes, 1, 4) = <<1002, 4, 3, 4>>

\* C21: the fetch after a write sees the written cell: [1002,4,3,4,33]
\* executes its Multiply once, on the memory it was given, the next fetch (at
\* cell 4) is the Halt the Multiply has just written, every run() returns
\* Halt(None), and the memory a run() leaves is exactly [1002,4,3,4,99].
C21_FetchSeesWrites ==
  /\ [](TestProgram =>
          /\ pc # "panic"
          /\ opcodes[5] \in {33, 99}
          /\ opcodes[5] = 33 => pointer = 0
          /\ (pointer = 4 /\ pc = "run") => Arm("Exit")
          /\ Len(results) >= 1 =>
               /\ opcodes = <<1002, 4, 3, 4, 99>>
               /\ \A i \in 1..Len(results) : results[i] = HaltNone)
  /\ [][ TestProgram =>
           /\ Arm("Mul") => (opcodes[5] = 33 /\ opcodes'[5] = 99 /\ pointer' = 4)
           /\ opcodes[5] = 99 => opcodes'[5] = 99 ]_vars

\* test_program's run() has returned
C21_Witness ==
  /\ opcodes = <<1002, 4, 3, 4, 99>>
  /\ results = <<HaltNone>>
  /\ lastOp = "Exit"
  /\ lastAt = 4

----------------------------------------------------------------------------
(* C22 *)

\* the program of the day-9 test that outputs a copy of itself
Quine ==
  <<109, 1, 204, -1, 1001, 100, 1, 100, 1008, 100, 16, 101, 1006, 101, 0, 99>>

\* the memory is the quine's: it writes only cells 100 and 101
QuineLoaded == Len(opcodes) >= 16 /\ SubSeq(opcodes, 1, 16) = Quine

\* a run_capturing_output() has just returned
JustCaptured == lastOp = "captured"

\* C22: run_capturing_output() on the quine, called on the VM as constructed,
\* returns the 16 integers of the program in order, and the VM is then
\* halted: its last run() returned Halt(None) and the pointer is on the Halt
\* instruction.  (Called after k values were taken by run(), it returns the
\* values from the k-th on.)
C22_Quine ==
  (QuineLoaded /\ JustCaptured) =>
     /\ capStart = 0 => captured = Quine
     /\ captured = SubSeq(Quine, capStart + 1, 16)
     /\ state = HaltNone
     /\ pointer = 15
     /\ Values(results) = Quine

\* the capture of the test has returned: no input, no run() before it
C22_Witness ==
  /\ QuineLoaded
  /\ JustCaptured
  /\ capStart = 0
  /\ pushed = <<>>
  /\ captured = Quine

----------------------------------------------------------------------------
(* C23 *)

\* the values of test_day_9
Factor == Decimal(<<3, 4, 9, 1, 5, 1, 9, 2>>)
Square == Decimal(<<1, 2, 1, 9, 0, 7, 0, 6, 3, 2, 3, 9, 6, 8, 6, 4>>)
Middle == Decimal(<<1, 1, 2, 5, 8, 9, 9, 9, 0, 6, 8, 4, 2, 6, 2, 4>>)

\* the memory is that of [1102,34915192,34915192,7,4,7,99,0], whatever cell 7
\* holds by now
SquareLoaded ==
  /\ Len(opcodes) = 8
  /\ SubSeq(opcodes, 1, 7) = SubSeq(MulThenOutput(Factor, Factor), 1, 7)

\* the memory is [104,1125899906842624,99]
MiddleLoaded == opcodes = OutputLiteral(Middle)

\* run() has returned, the program has put out v and nothing else, and it has
\* halted
PutOutOnly(v) ==
  /\ emitted = <<v>>
  /\ Values(results) = <<v>>
  /\ results[Len(results)].tag = "Halt"

\* C23: with the cells at the full width of an i64, in a debug and in a
\* release build, [1102,34915192,34915192,7,4,7,99,0] does not panic and
\* halts with the single output 1219070632396864, and
\* [104,1125899906842624,99] halts with the single output 1125899906842624:
\* the 8 bytes put out are those of the decimal literal.
C23_LargeValues ==
  /\ SquareLoaded =>
       /\ pc # "panic"
       /\ Len(results) >= 1 => PutOutOnly(Square)
       /\ Len(opcodes) = 8
       /\ lastOp \in {"Mul", "Output", "Exit"} => opcodes[8] = Square
  /\ MiddleLoaded =>
       /\ pc # "panic"
       /\ Len(results) >= 1 => PutOutOnly(Middle)

\* the first program of the test has multiplied and put out the square
C23_Witness ==
  /\ SquareLoaded
  /\ lastOp = "Output"
  /\ emitted = <<Square>>
  /\ build = "debug"

C23_WitnessMiddle ==
  /\ MiddleLoaded
  /\ lastOp = "Output"
  /\ emitted = <<Middle>>

----------------------------------------------------------------------------
(* C24 *)

\* the result of the first run() is `tag` with the value v
FirstResult(tag, v) ==
  /\ results[1].tag = tag
  /\ results[1].some
  /\ results[1].value = v

----------------------------------------------------------------------------
(* C25 *)

\* a run() call is entered in this step
Enters == pc # "run" /\ pc' = "run"

\* C25: the step that executes an Output instruction ends the run() call it
\* is in (so a call executes at most one, and nothing after it): run()
\* returns a result carrying the value, or panics; the pointer is then 2 past
\* the Output and nothing else of the VM has changed; and the next call
\* starts where that one left the VM.
C25_OneSuspensionPoint ==
  [][ /\ Arm("Output") =>
           /\ pc' # "run"
           /\ pointer' = pointer + 2
           /\ UNCHANGED <<opcodes, relative_base, inputs>>
           /\ pc' # "panic" =>
                /\ results' = Append(results, results'[Len(results')])
                /\ results'[Len(results')].some
                /\ results'[Len(results')].value = emitted'[Len(emitted')]
      /\ Enters => UNCHANGED <<opcodes, pointer, relative_base, inputs>>
    ]_vars

\* [104,5,104,6,99] has been resumed once: two calls, one output each
C25_Witness ==
  /\ opcodes = <<104, 5, 104, 6, 99>>
  /\ results = <<Output(5), HaltSome(6)>>
  /\ emitted = <<5, 6>>
  /\ pointer = 4

----------------------------------------------------------------------------
(* C26 *)

\* push_input is called in this step
Pushes == pushed' # pushed

\* C26: a push_input(v) appends v to the back of the input queue and does
\* nothing else: memory, pointer and relative base are as before, no
\* instruction is executed (nothing is emitted, consumed or returned), and
\* this in every state the VM is called in: as constructed, suspended after an
\* output, halted.
C26_PushOnlyAppends ==
  /\ [][ Pushes =>
           /\ \E v \in InputVals :
                inputs' = Append(inputs, v) /\ pushed' = Append(pushed, v)
           /\ UNCHANGED <<opcodes, pointer, relative_base, results, emitted,
                          consumed, pc, lastOp, lastAt>> ]_vars
  /\ []((pc = "idle" /\ Len(pushed) < MaxPush)
          => \A v \in InputVals : ENABLED push_input(v))

\* [104,5,104,6,99] is suspended after its first output and holds two values
\* it was given
C26_Witness ==
  /\ opcodes = <<104, 5, 104, 6, 99>>
  /\ results = <<Output(5)>>
  /\ inputs = <<7, 8>>
  /\ pointer = 2

\* a halted VM holds values it was given
C26_WitnessHalted ==
  /\ opcodes = <<1002, 4, 3, 4, 99>>
  /\ results = <<HaltNone>>
  /\ inputs = <<9, 7>>


----------------------------------------------------------------------------
(* C28: the VM as constructed *)

\* nothing has run yet: no arm of the loop was taken since Program::new
Untouched == calls <= 1 /\ results = <<>> /\ lastOp \in {"new", "run"}

\* the sequence given to Program::new (and the base the test harness assigns)
AsGiven ==
  /\ [opcodes |-> opcodes, relative_base |-> relative_base] \in Setups
  /\ (opcodes \in Programs => relative_base = 0)

\* C28: a newly constructed VM has pointer 0, relative base 0 (until
\* test_change_relative_base assigns the field), an empty input queue (it
\* holds exactly what was pushed since) and memory equal to the given
\* sequence; the first pass of the first run() fetches from cell 0.
C28_NewVM ==
  /\ [](Untouched => pointer = 0 /\ inputs = pushed /\ AsGiven)
  /\ [][(Untouched /\ ~Untouched' /\ pc = "run" /\ Fetched.some
           /\ Fetched.ins.panic = "none")
          => lastAt' = 0 /\ lastOp' = Fetched.ins.instruction
             /\ Fetched.ins = from_intcode(opcodes[1])]_vars

\* the first run() has executed the instruction of cell 0 and moved on
C28_Witness ==
  /\ calls = 1 /\ results = <<>> /\ pc = "run"
  /\ lastOp \notin {"new", "run"} /\ lastAt = 0 /\ pointer > 0


----------------------------------------------------------------------------
(* C30: the look-ahead of the day-7 copy *)

\* run() has just returned from the Output arm (push_input moves neither the
\* pointer nor the memory)
Day7AfterOutput == pc = "idle" /\ lastOp = "Output" /\ results # <<>>

\* the instruction at the advanced pointer: the very next one to execute
Day7NextIsExit ==
  /\ day7_next(opcodes, pointer).some
  /\ day7_next(opcodes, pointer).ins.instruction = "Exit"

\* C30: in the day-7 copy, after an Output instruction run() returns
\* Halt(Some(value)) if and only if the instruction at the advanced pointer
\* is Exit, and Output(value) otherwise.
C30_PeekIsNextInstruction ==
  Day7AfterOutput =>
    state = (IF Day7NextIsExit THEN HaltSome(emitted[Len(emitted)])
             ELSE Output(emitted[Len(emitted)]))

\* the look-ahead and the next instruction agree: Output before an Exit
C30_AgreeingCase == Day7AfterOutput /\ Day7NextIsExit /\ state.tag = "Halt"


----------------------------------------------------------------------------
(* C29: the amplifier ring *)

Greatest(S) == CHOOSE x \in S : \A y \in S : y <= x

Least(S) == CHOOSE x \in S : \A y \in S : x <= y

\* the resumes made so far: ops[k] is the k-th, results[k] what its run()
\* returned
Resumes == 1..Len(ops)

\* amplifier `id` has returned Halt in one of the first k runs
AmpHalted(id, k) ==
  \E j \in 1..k : j <= Len(results) /\ ops[j].id = id /\ results[j].tag = "Halt"

\* the amplifier d places after amplifier `id` in the ring
RingAfter(id, d) == ((id - 1 + d) % Len(settings)) + 1

\* each amplifier's first input is its phase setting
PhaseFirst ==
  /\ \A i \in 1..Len(amplifiers) :
       amplifiers[i].pushed[1] = settings[amplifiers[i].id]
  /\ (pc \in {"run", "idle", "panic"} => pushed[1] = settings[ops[Len(ops)].id])

\* amplifiers are resumed in strict cyclic order, the halted ones left out
CyclicOrder ==
  \A k \in Resumes :
    IF k = 1 THEN ops[k].id = 1
    ELSE LET alive == {d \in 1..Len(settings) :
                         ~AmpHalted(RingAfter(ops[k - 1].id, d), k - 1)}
         IN /\ alive # {}
            /\ ops[k].id = RingAfter(ops[k - 1].id, Least(alive))

\* an amplifier whose run() returned Halt is never run again
HaltedStayHalted ==
  \A k \in Resumes : \A j \in 1..(k - 1) :
    results[j].tag = "Halt" => ops[k].id # ops[j].id

\* before each resume the amplifier is given the most recent output of the
\* amplifier run just before it, 0 for the very first resume
GivenPredecessorOutput ==
  \A k \in Resumes :
    IF k = 1 THEN ops[k].given = 0
    ELSE LET outs == {j \in 1..(k - 1) :
                        ops[j].id = ops[k - 1].id /\ results[j].some}
         IN /\ outs # {}
            /\ ops[k].given = results[Greatest(outs)].value

\* before each resume the amplifier is given the value the most recent run
\* of any amplifier returned with, 0 when no run has returned a value yet
GivenLastOutput ==
  \A k \in Resumes :
    LET outs == {j \in 1..(k - 1) : results[j].some}
    IN ops[k].given = IF outs = {} THEN 0 ELSE results[Greatest(outs)].value

\* the function has returned: every amplifier has halted
AllHalted == \A id \in 1..Len(settings) : AmpHalted(id, Len(ops))

\* C29 as stated: phase first, strict cyclic order, each resume is given the
\* most recent output of the amplifier run just before it, a halted
\* amplifier is never run again, and once every amplifier has halted the
\* function returns the last value output by any amplifier.
C29_RingAsStated ==
  /\ PhaseFirst
  /\ CyclicOrder
  /\ GivenPredecessorOutput
  /\ HaltedStayHalted
  /\ (pc = "amp_done" =>
        AllHalted /\ emitted # <<>> /\ last_output = emitted[Len(emitted)])

\* C29, amended: phase first, strict cyclic order among the amplifiers that
\* have not halted, each resume is given last_output (the value of the most
\* recent run of any amplifier that returned one, 0 before the first), a
\* halted amplifier is never run again, and the function returns, once every
\* amplifier has halted, the last value put out by any amplifier (0 if none
\* put out a value).
C29_Ring ==
  /\ PhaseFirst
  /\ CyclicOrder
  /\ GivenLastOutput
  /\ HaltedStayHalted
  /\ (pc = "amp_done" =>
        /\ AllHalted
        /\ last_output = IF emitted = <<>> THEN 0 ELSE emitted[Len(emitted)])

\* a ring of two or more went round more than once, an amplifier halted
\* without a value after another one's output, and the function returned
C29_Witness ==
  /\ pc = "amp_done"
  /\ Len(settings) >= 2
  /\ Len(ops) > Len(settings)
  /\ \E k \in Resumes : k > 1 /\ ~results[k].some /\ ops[k].given # 0
  /\ last_output # 0


----------------------------------------------------------------------------
(* C27: two Programs share no state *)

\* the Program the caller is not operating on
TheOther == amplifiers[1]

\* the number of run() calls among the first k calls of a history
RunsIn(made, k) == Cardinality({j \in 1..k : made[j].method = "run"})

\* the two Programs were given the same first k calls
SameCalls(k) == \A j \in 1..k : ops[j] = TheOther.ops[j]

\* two Programs built from the same sequence and given the same calls have
\* returned the same results, however the calls on one were interleaved with
\* calls on the other (in particular when one of them was driven to the end
\* before the other was touched); at the end of the same calls their
\* memory, pointer, relative base and queue are the same
SameCallsSameResults ==
  intcodes = TheOther.intcodes =>
    /\ \A k \in 1..Len(ops) :
         (/\ k <= Len(TheOther.ops)
          /\ SameCalls(k)
          /\ ops[k].method = "run"
          /\ RunsIn(ops, k) <= Len(results)
          /\ RunsIn(ops, k) <= Len(TheOther.results))
           => results[RunsIn(ops, k)] = TheOther.results[RunsIn(ops, k)]
    /\ (pc = "idle" /\ ops = TheOther.ops) =>
         /\ opcodes = TheOther.opcodes
         /\ pointer = TheOther.pointer
         /\ relative_base = TheOther.relative_base
         /\ inputs = TheOther.inputs

\* C27: an operation on one Program (push_input, run and every pass of its
\* loop) leaves the memory, pointer, relative base and input queue of the
\* other unchanged, turning to the other Program finds it as it was left,
\* and each Program's results depend on its own calls only.
C27_NoSharedState ==
  /\ [][lastOp' # "switch" => amplifiers' = amplifiers]_vars
  /\ [][lastOp' = "switch" =>
          /\ amplifiers' = <<Other(opcodes, pointer, inputs, relative_base,
                                   pushed, results, ops, intcodes)>>
          /\ opcodes' = TheOther.opcodes
          /\ pointer' = TheOther.pointer
          /\ relative_base' = TheOther.relative_base
          /\ inputs' = TheOther.inputs]_vars
  /\ []SameCallsSameResults

\* two Programs built from the same sequence have each been pushed a value
\* and run to an output, and the one run first was touched again after the
\* other had finished
C27_Witness ==
  /\ pc = "idle"
  /\ intcodes = TheOther.intcodes
  /\ ops = TheOther.ops
  /\ Len(ops) >= 2
  /\ results # <<>>
  /\ results[1].some
  /\ consumed >= 2
  /\ lastOp = "switch"


----------------------------------------------------------------------------
(* C31: the look-ahead after Output *)

\* C31: after an Output instruction the look-ahead always finds a next
\* instruction, so executing an Output instruction never aborts because of
\* the look-ahead, also when the Output occupies the last two cells.
C31_LookAheadAlwaysSome ==
  [][Arm("Output") =>
       /\ next(opcodes, pointer + jump_size("Output")).some
       /\ pc' # "panic"]_vars

\* where a cell follows the Output, the look-ahead finds it
C31_CellFollows ==
  /\ lastOp = "Output"
  /\ pc = "idle"
  /\ pointer < Len(opcodes)


----------------------------------------------------------------------------
(* C32: when decoding fails *)

\* the number of parameters the instruction of a cell has
Parameters(cell) == size(from_opcode(cell % 100)) - 1

\* the mode digits of the parameters the instruction has are in {0, 1, 2}
UsedModesValid(cell) ==
  \A k \in 1..Parameters(cell) :
    DigitAt(cell, 10 * (10 ^ k)) \in {0, 1, 2}

\* the cell that run() was decoding when the decoder panicked
DecodeFailedOn(cell) ==
  pc = "panic" /\ lastOp = "decode" /\ cell = opcodes[lastAt + 1]

\* C32: decoding fails only for an unrecognized opcode: a cell whose low two
\* digits are a recognized opcode and whose mode digits for the parameters
\* the instruction has are in {0, 1, 2} decodes without a decode error,
\* whatever the digits at the places of parameters it does not have.
C32_DecodeFailsOnlyForOpcode ==
  \A cell \in DecodeCells :
    (DecodeFailedOn(cell) /\ from_opcode(cell % 100) # "Unknown")
      => ~UsedModesValid(cell)

\* decoding does fail for an unrecognized opcode
C32_UnknownOpcodeFails ==
  \E cell \in DecodeCells :
    DecodeFailedOn(cell) /\ from_opcode(cell % 100) = "Unknown"


----------------------------------------------------------------------------
(* C33: what changes the memory *)

\* after differs from before in the cell at address only, but for zeros in
\* the cells it has beyond the end of before
OnlyTargetChanged(before, after, address) ==
  \A a \in 0..(Len(after) - 1) :
    a # address => after[a + 1] = (IF a < Len(before) THEN before[a + 1] ELSE 0)

\* C33: the memory length never decreases, and a cell changes only as the
\* write target of an executed Add, Multiply, Input, Less-Than or Equals
\* (or as the zero fill of the cells such a write creates); Output, the
\* jumps, Adjust-Relative-Base, Halt, the look-ahead after Output and
\* push_input never modify the memory.
C33_MemoryChanges ==
  [][/\ Len(opcodes') >= Len(opcodes)
     /\ (opcodes' # opcodes =>
           /\ WriteArm
           /\ OnlyTargetChanged(opcodes, opcodes', WriteAddress))]_vars

\* in every step that does not abort the process, C33 holds as claimed
MemoryChangesUnlessAborted ==
  [][pc' # "panic" =>
       /\ Len(opcodes') >= Len(opcodes)
       /\ (opcodes' # opcodes =>
             /\ WriteArm
             /\ OnlyTargetChanged(opcodes, opcodes', WriteAddress))]_vars

\* a write has created cells beyond the end of the memory
C33_MemoryGrown ==
  /\ pc = "run"
  /\ lastOp \in {"Add", "Mul", "Input", "LessThan", "Equal"}
  /\ opcodes # <<>>
  /\ opcodes[Len(opcodes)] # 0
  /\ Len(opcodes) > 20


----------------------------------------------------------------------------
(* C34: when the inputs are pushed *)

\* every push_input of the history comes before its first run()
PushesFirst(made) ==
  \A i \in 1..Len(made) : \A j \in (i + 1)..Len(made) :
    made[j].method = "push_input" => made[i].method = "push_input"

\* the two Programs were built from the same sequence, were pushed the same
\* values and were run the same number of times; the one the caller holds
\* got all its values before its first run()
SameInputsPushedFirst ==
  /\ pc = "idle"
  /\ intcodes = TheOther.intcodes
  /\ pushed = TheOther.pushed
  /\ RunsIn(ops, Len(ops)) = RunsIn(TheOther.ops, Len(TheOther.ops))
  /\ PushesFirst(ops)

\* C34: the results of a VM depend on its program and on the sequence of
\* pushed values, not on when they are pushed: a VM that got all its values
\* before the first run() and a VM that got each value at some point before
\* the Input that consumes it return the same results and end with the same
\* memory, pointer, relative base and queue.
C34_PushTimingIrrelevant ==
  SameInputsPushedFirst =>
    /\ results = TheOther.results
    /\ opcodes = TheOther.opcodes
    /\ pointer = TheOther.pointer
    /\ relative_base = TheOther.relative_base
    /\ inputs = TheOther.inputs

\* one Program got two values and then ran twice, the other was pushed the
\* second value between its two runs, and both consumed both values
C34_Witness ==
  /\ SameInputsPushedFirst
  /\ ~PushesFirst(TheOther.ops)
  /\ Len(pushed) = 2
  /\ pushed[1] # pushed[2]
  /\ inputs = <<>>
  /\ Len(results) = 2
  /\ results[2].some


----------------------------------------------------------------------------
(* C35, C36: PainterRobot::paint *)

\* the colour of a panel: the colour last painted there, black (0) if the
\* panel was never painted
PanelColour(canvas, at) == IF at \in DOMAIN canvas THEN canvas[at] ELSE 0

\* C35: after each completed (colour, turn) pair the robot paints the panel
\* it is on, turns, moves one step, and then pushes as the program's next
\* input the colour of the panel it is now sitting on (the colour last
\* painted there, or 0 if it was never painted).
C35_PushesColourUnderRobot ==
  [][paint_Output_second =>
       /\ PanelColour(locals'.canvas, locals.position)
            = ToUsize(locals.prev_output.value)
       /\ locals'.direction = turn(locals.direction, state.value = 0)
       /\ locals'.position = next_position(locals'.direction, locals.position)
       /\ pushed' = Append(pushed, PanelColour(locals'.canvas,
                                               locals'.position))]_vars

\* everything the claim says of the step except the value pushed
PaintsTurnsMoves ==
  [][paint_Output_second =>
       /\ PanelColour(locals'.canvas, locals.position)
            = ToUsize(locals.prev_output.value)
       /\ locals'.direction = turn(locals.direction, state.value = 0)
       /\ locals'.position = next_position(locals'.direction, locals.position)
       /\ Len(pushed') = Len(pushed) + 1]_vars

\* the robot has turned right onto a panel that was never painted, and has
\* pushed 1
C35_TurnedRightOntoBlack ==
  /\ caller = "paint"
  /\ lastOp = "paint"
  /\ pc = "paint_loop"
  /\ Len(locals.strokes) > 0
  /\ locals.position \notin DOMAIN locals.canvas
  /\ pushed[Len(pushed)] = 1

\* C36: every (colour, turn) pair of outputs the program emits is applied
\* to the canvas before paint returns, the last pair before the halt
\* included, whether its second value arrives as Output(v) or as
\* Halt(Some(v)).
C36_EveryPairApplied ==
  pc = "paint_done" =>
    /\ Len(locals.strokes) = Len(emitted) \div 2
    /\ \A k \in 1..Len(locals.strokes) :
         locals.strokes[k].color = ToUsize(emitted[2 * k - 1])

\* the pairs whose second value arrived as Output(v) are all applied
PairsBeforeHaltApplied ==
  pc = "paint_done" =>
    /\ Len(locals.strokes)
         = Len(SelectSeq(results, LAMBDA r : r.tag = "Output")) \div 2
    /\ \A k \in 1..Len(locals.strokes) :
         locals.strokes[k].color = ToUsize(emitted[2 * k - 1])

\* paint has returned after a pair whose second value was the halt's
C36_PairEndedByHalt ==
  /\ pc = "paint_done"
  /\ state.tag = "Halt"
  /\ state.some
  /\ Len(emitted) = 2
  /\ locals.strokes = <<>>


----------------------------------------------------------------------------
(* C37: Switch::run and NAT *)

\* is_stalled() as the Wait arm evaluates it, after nat.waiting(index)
StalledAtWait ==
  /\ switch_Wait
  /\ is_stalled(waiting(locals.nat, locals.index))

\* C37: the NAT forwards its packet only when the network is idle: whenever
\* is_stalled() is true, every program's last run() returned Wait and no
\* packet is pending delivery in any program's inputs buffer, a packet that
\* a program addressed to itself included.
C37_StalledMeansIdle ==
  [][StalledAtWait =>
       /\ \A n \in 1..NetSize : locals'.last[n] = "Wait"
       /\ \A n \in 1..NetSize : locals.inputs[n] = <<>>]_vars

\* the half of the claim about the programs' last results
StalledMeansAllWaiting ==
  [][StalledAtWait => \A n \in 1..NetSize : locals'.last[n] = "Wait"]_vars

\* the network counts as stalled while a program's packet to itself is
\* still in its inputs buffer
C37_StalledWithPacketPending ==
  /\ pc = "switch_for"
  /\ is_stalled(locals.nat)
  /\ \E n \in 1..NetSize : locals.inputs[n] # <<>>

\* the NAT has sent its packet to program 0 of a network that was idle
C37_NatSentWhenIdle ==
  /\ pc = "switch_for"
  /\ locals.last_nat_send.some
  /\ locals.inputs[1] = <<1, 2>>

====
